---------------------------- MODULE Spec2Model ----------------------------
(***************************************************************************)
(* A model of rust-selectors: the packed/unpacked specificity arithmetic   *)
(* of src/specificity.rs and the selector parser of src/parser.rs.         *)
(***************************************************************************)
EXTENDS Integers, Sequences, FiniteSets, TLC

VARIABLES
    step,       \* position of the driver: which operation ran last
    build,      \* "debug" or "release": decides what an overflowing shift does
    ua, ub,     \* two UnpackedSpecificity inputs
    pa, pb,     \* their packed forms (Specificity)
    psum,       \* result of Specificity + Specificity
    back,       \* result of UnpackedSpecificity::from(pa)
    context,    \* ParserContext
    input,      \* the token stream handed to the parser
    written,    \* how many pieces the token stream was written from
    result,     \* what the parser returned
    bounds,     \* three Bounds<UnpackedSpecificity> inputs
    bout,       \* what the operation on Bounds returned
    cursor,     \* position of the Parser on entry to the function called
    acc         \* what a loop of the parser has built so far

boundsVars == <<bounds, bout>>
loopVars == <<cursor, acc>>

vars == <<step, build, ua, ub, pa, pb, psum, back, context, input, written, result,
          boundsVars, loopVars>>

(***************************************************************************)
(* Bounds of the model.                                                    *)
(***************************************************************************)
\* tiers are drawn from 0..MaxLow and from MAX_10BIT..MAX_10BIT+MaxOver
MaxLow == 1
MaxOver == 1
\* selectors of the main specification are written from at most MaxPieces pieces
MaxPieces == 5
\* and of SpecCount from at most MaxCountPieces
MaxCountPieces == 4
\* of SpecNot, the arguments of :not() included, from at most MaxNotPieces
MaxNotPieces == 5
\* of SpecChain from at most MaxChainPieces
MaxChainPieces == 6
\* of SpecNs from at most MaxNsPieces
MaxNsPieces == 4
\* of SpecAttr from at most MaxAttrPieces
MaxAttrPieces == 4
\* of SpecSafe, the insides of blocks included, from at most MaxSafePieces
MaxSafePieces == 4
\* of SpecLoop from at most MaxLoopPieces
MaxLoopPieces == 4
\* of SpecLook from at most MaxLookPieces
MaxLookPieces == 3
\* the ends of the Bounds of SpecWiden count at most MaxWeight simple selectors
MaxWeight == 1
\* an end of a Bounds of SpecTrack has at most MaxOnes one-bits in its tiers
MaxOnes == 1

(***************************************************************************)
(* src/specificity.rs                                                      *)
(***************************************************************************)
MAX_10BIT == (2^10) - 1

Min(x, y) == IF x <= y THEN x ELSE y

\* A u32 as the set of its one-bits, so that shifts past bit 31 lose bits
\* the way the machine does.
Bits(n) == {i \in 0..30 : (n \div (2^i)) % 2 = 1}

RECURSIVE Val(_)
Val(S) == IF S = {} THEN 0
          ELSE LET i == CHOOSE j \in S : TRUE IN (2^i) + Val(S \ {i})

\* x << k on u32: bits shifted past bit 31 are dropped
Shl(S, k) == {i + k : i \in S} \cap (0..31)

\* x >> k on u32
Shr(n, k) == n \div (2^k)

BitAnd(x, y) == Val(Bits(x) \cap Bits(y))

UnpackedSpecificity(i, c, e) ==
    [id_selectors |-> i, class_like_selectors |-> c, element_selectors |-> e]

UnpackedDefault == UnpackedSpecificity(0, 0, 0)

UnpackedAdd(x, y) ==
    UnpackedSpecificity(x.id_selectors + y.id_selectors,
                        x.class_like_selectors + y.class_like_selectors,
                        x.element_selectors + y.element_selectors)

\* derived Ord on UnpackedSpecificity: lexicographic in field order
UnpackedLess(x, y) ==
    \/ x.id_selectors < y.id_selectors
    \/ /\ x.id_selectors = y.id_selectors
       /\ \/ x.class_like_selectors < y.class_like_selectors
          \/ /\ x.class_like_selectors = y.class_like_selectors
             /\ x.element_selectors < y.element_selectors

UnpackedMax(x, y) == IF UnpackedLess(y, x) THEN x ELSE y

\* the three tiers occupy disjoint bit ranges, so | is + here
PackNoSaturation(u) ==
    u.id_selectors * (2^20) + u.class_like_selectors * (2^10) + u.element_selectors

\* From<UnpackedSpecificity> for Specificity
Pack(u) ==
    Min(u.id_selectors, MAX_10BIT) * (2^20)
    + Min(u.class_like_selectors, MAX_10BIT) * (2^10)
    + Min(u.element_selectors, MAX_10BIT)

UnpackNoMask(s) ==
    UnpackedSpecificity(Shr(s, 20), Shr(s, 10), BitAnd(s, MAX_10BIT))

\* From<Specificity> for UnpackedSpecificity
Unpack(s) ==
    UnpackedSpecificity(Shr(s, 20),
                        BitAnd(Shr(s, 10), MAX_10BIT),
                        BitAnd(s, MAX_10BIT))

\* MAX_10BIT << amount, as the build evaluates it: a shift amount of 32 or
\* more panics in a debug build and is masked to 5 bits in a release build
ShiftOverflows(amount) == amount >= 32

MaskShl(amount) == Shl(Bits(MAX_10BIT), amount % 32)

\* impl Add for Specificity.  `+` binds tighter than `<<`, which binds
\* tighter than `&`, so each tier is
\*   self.0 & (MAX_10BIT << (k + rhs.0)) & (MAX_10BIT << k)
\* and the last is self.0 & (MAX_10BIT + rhs.0) & MAX_10BIT.
SpecificityAdd(self, other, bld) ==
    IF bld = "debug" /\ ShiftOverflows(20 + other)
    THEN [panic |-> TRUE, v |-> 0]
    ELSE
      LET hi  == Val(Bits(self) \cap MaskShl(20 + other) \cap Shl(Bits(MAX_10BIT), 20))
          mid == Val(Bits(self) \cap MaskShl(10 + other) \cap Shl(Bits(MAX_10BIT), 10))
          lo  == Val(Bits(self) \cap Bits(MAX_10BIT + other) \cap Bits(MAX_10BIT))
      IN [panic |-> FALSE,
          v |-> Val(Bits(Min(hi, MAX_10BIT * (2^20)))
                    \cup Bits(Min(mid, MAX_10BIT * (2^10)))
                    \cup Bits(Min(lo, MAX_10BIT)))]

\* struct Bounds<T: Ord> { min, max }
Bounds(min, max) == [min |-> min, max |-> max]

\* #[derive(Default)] on Bounds, for T = UnpackedSpecificity
BoundsDefault == Bounds(UnpackedDefault, UnpackedDefault)

\* Bounds<Specificity>::unpack
BoundsUnpack(self) == Bounds(Unpack(self.min), Unpack(self.max))

\* a pack that stores the two ends the other way round
BoundsPackSwapped(self) == Bounds(Pack(self.max), Pack(self.min))

\* Bounds<UnpackedSpecificity>::pack
BoundsPack(self) == Bounds(Pack(self.min), Pack(self.max))

incr_element_selectors(self) ==
    Bounds([self.min EXCEPT !.element_selectors = @ + 1],
           [self.max EXCEPT !.element_selectors = @ + 1])

incr_id_selectors(self) ==
    Bounds([self.min EXCEPT !.id_selectors = @ + 1],
           [self.max EXCEPT !.id_selectors = @ + 1])

incr_class_like_selectors(self) ==
    Bounds([self.min EXCEPT !.class_like_selectors = @ + 1],
           [self.max EXCEPT !.class_like_selectors = @ + 1])

\* cmp::min and cmp::max on T = UnpackedSpecificity, by its derived Ord:
\* min(v1, v2) is v1 unless v2 < v1, max(v1, v2) is v2 unless v2 < v1
CmpMin(v1, v2) == IF UnpackedLess(v2, v1) THEN v2 ELSE v1
CmpMax(v1, v2) == IF UnpackedLess(v2, v1) THEN v1 ELSE v2

\* a widen that keeps its own max
WidenKeepingMax(self, other) == Bounds(CmpMin(self.min, other.min), self.max)

\* Bounds<T>::widen
widen(self, other) ==
    Bounds(CmpMin(self.min, other.min), CmpMax(self.max, other.max))

\* impl Add<T> for Bounds<T>
BoundsAddValue(self, other) ==
    Bounds(UnpackedAdd(self.min, other), UnpackedAdd(self.max, other))

\* impl Add for Bounds<T>
BoundsAdd(self, other) ==
    Bounds(UnpackedAdd(self.min, other.min), UnpackedAdd(self.max, other.max))

(***************************************************************************)
(* The same operations of Bounds<UnpackedSpecificity> with the counters at *)
(* their width.  A counter is a u32, here the set of its one-bits, since   *)
(* the counts that matter reach 2^32.  `+` and `+= 1` on u32 with a carry  *)
(* out of bit 31 panic in a debug build and wrap in a release build.       *)
(***************************************************************************)
Word == 0..31

One == {0}

Tiers == {"id_selectors", "class_like_selectors", "element_selectors"}

\* the carry into each bit of x + y, and at 32 the carry out of the word
CarryInto(x, y) ==
    LET carry[i \in 0..32] ==
            IF i = 0 THEN FALSE
            ELSE IF (i - 1) \in x /\ (i - 1) \in y THEN TRUE
            ELSE IF (i - 1) \notin x /\ (i - 1) \notin y THEN FALSE
            ELSE carry[i - 1]
    IN carry

\* x + y overflows u32
AddOverflows(x, y) == CarryInto(x, y)[32]

\* x + y on u32 where it does not panic: the bits of the sum modulo 2^32
WrappingSum(x, y, carry) == {i \in Word : ((i \in x) # (i \in y)) # carry[i]}

WrappingAdd(x, y) == WrappingSum(x, y, CarryInto(x, y))

\* x < y on u32: the highest bit in which they differ is a bit of y
LessU32(x, y) == \E i \in y \ x : \A j \in x \ y : j < i

Default_u32 == UnpackedSpecificity({}, {}, {})

\* impl Add for UnpackedSpecificity
UnpackedAdd_u32(x, y) ==
    [tier \in Tiers |-> WrappingAdd(x[tier], y[tier])]

UnpackedAddOverflows(x, y) == \E tier \in Tiers : AddOverflows(x[tier], y[tier])

\* derived Ord on UnpackedSpecificity: lexicographic in field order
UnpackedLess_u32(x, y) ==
    \/ LessU32(x.id_selectors, y.id_selectors)
    \/ /\ x.id_selectors = y.id_selectors
       /\ \/ LessU32(x.class_like_selectors, y.class_like_selectors)
          \/ /\ x.class_like_selectors = y.class_like_selectors
             /\ LessU32(x.element_selectors, y.element_selectors)

BoundsDefault_u32 == Bounds(Default_u32, Default_u32)

\* self.min.<tier> += 1; self.max.<tier> += 1
IncrTier(self, tier) ==
    Bounds([self.min EXCEPT ![tier] = WrappingAdd(@, One)],
           [self.max EXCEPT ![tier] = WrappingAdd(@, One)])

IncrOverflows(self, tier) ==
    AddOverflows(self.min[tier], One) \/ AddOverflows(self.max[tier], One)

incr_element_selectors_u32(self) == IncrTier(self, "element_selectors")

incr_id_selectors_u32(self) == IncrTier(self, "id_selectors")

incr_class_like_selectors_u32(self) == IncrTier(self, "class_like_selectors")

CmpMin_u32(v1, v2) == IF UnpackedLess_u32(v2, v1) THEN v2 ELSE v1
CmpMax_u32(v1, v2) == IF UnpackedLess_u32(v2, v1) THEN v1 ELSE v2

\* Bounds<T>::widen
widen_u32(self, other) ==
    Bounds(CmpMin_u32(self.min, other.min), CmpMax_u32(self.max, other.max))

\* impl Add for Bounds<T>
BoundsAdd_u32(self, other) ==
    Bounds(UnpackedAdd_u32(self.min, other.min), UnpackedAdd_u32(self.max, other.max))

BoundsAddOverflows(self, other) ==
    UnpackedAddOverflows(self.min, other.min) \/ UnpackedAddOverflows(self.max, other.max)

(***************************************************************************)
(* The token stream (cssparser's Parser, used through the calls that       *)
(* src/parser.rs makes).  A token is [k, v, body]: kind, text, and for a   *)
(* block-opening token the tokens of the block.  A Parser is a token       *)
(* sequence and whether it stops before a top-level comma (the delimited   *)
(* parser that parse_comma_separated hands to its callback); the cursor is *)
(* an index into the sequence.                                             *)
(***************************************************************************)
Tok(k, v, body) == [k |-> k, v |-> v, body |-> body]

Ident(v)    == Tok("Ident", v, <<>>)
IDHash(v)   == Tok("IDHash", v, <<>>)
Delim(c)    == Tok("Delim", c, <<>>)
Colon       == Tok("Colon", ":", <<>>)
WhiteSpace  == Tok("WhiteSpace", " ", <<>>)
Comma       == Tok("Comma", ",", <<>>)
QuotedString(v) == Tok("QuotedString", v, <<>>)
SquareBracketBlock(body) == Tok("SquareBracketBlock", "[", body)
Function(name, body)     == Tok("Function", name, body)
IncludeMatch   == Tok("IncludeMatch", "~=", <<>>)
DashMatch      == Tok("DashMatch", "|=", <<>>)
PrefixMatch    == Tok("PrefixMatch", "^=", <<>>)
SubstringMatch == Tok("SubstringMatch", "*=", <<>>)
SuffixMatch    == Tok("SuffixMatch", "$=", <<>>)
\* what next() and next_including_whitespace() return as Err(())
EndOfInput  == Tok("Err", "", <<>>)

Parser(ts, stop) == [ts |-> ts, stop |-> stop]

AtEnd(inp, p) ==
    \/ p > Len(inp.ts)
    \/ inp.stop /\ inp.ts[p].k = "Comma"

\* input.next_including_whitespace(): the token and the cursor after it
next_including_whitespace(inp, p) ==
    IF AtEnd(inp, p) THEN [tok |-> EndOfInput, pos |-> p]
    ELSE [tok |-> inp.ts[p], pos |-> p + 1]

RECURSIVE SkipWs(_, _)
SkipWs(inp, p) ==
    IF ~AtEnd(inp, p) /\ inp.ts[p].k = "WhiteSpace" THEN SkipWs(inp, p + 1) ELSE p

\* input.next(): as above, after skipping whitespace
next(inp, p) == next_including_whitespace(inp, SkipWs(inp, p))

\* Parser::expect_exhausted (run by parse_entirely after every nested or
\* delimited parse): only whitespace is left
Exhausted(inp, p) == AtEnd(inp, SkipWs(inp, p))

(***************************************************************************)
(* Results.  ok: Ok(..) or Err(()); some: Ok(Some(..)) or Ok(None);        *)
(* panic: the call did not return (unreachable!(), unwrap() on None).      *)
(***************************************************************************)
Ok(v, p)   == [ok |-> TRUE,  panic |-> FALSE, some |-> TRUE,  v |-> v,    pos |-> p]
OkNone(p)  == [ok |-> TRUE,  panic |-> FALSE, some |-> FALSE, v |-> <<>>, pos |-> p]
Err(p)     == [ok |-> FALSE, panic |-> FALSE, some |-> FALSE, v |-> <<>>, pos |-> p]
Panicked(p) == [ok |-> FALSE, panic |-> TRUE, some |-> FALSE, v |-> <<>>, pos |-> p]
\* try!(r) on a failed r: the failure is handed on
Try(r)     == [ok |-> FALSE, panic |-> r.panic, some |-> FALSE, v |-> <<>>, pos |-> r.pos]

None == <<>>
Some(x) == <<x>>

\* str::to_ascii_lowercase on the names of the model: ASCII letters only
to_ascii_lowercase(s) ==
    CASE s = "E" -> "e"
      [] s = "Foo" -> "foo"
      [] s = "ROOT" -> "root"
      [] s = "NOT" -> "not"
      [] s = "I" -> "i"
      [] s = "After" -> "after"
      [] OTHER -> s

eq_ignore_ascii_case(s, t) == to_ascii_lowercase(s) = to_ascii_lowercase(t)

(***************************************************************************)
(* src/parser.rs: the data model                                           *)
(***************************************************************************)
\* NamespaceConstraint
\* NamespaceConstraint::Any
AnyNs == [any |-> TRUE, ns |-> ""]
Specific(ns) == [any |-> FALSE, ns |-> ns]
\* ns!(): the empty namespace
NoNamespace == ""

\* SimpleSelector: every variant is a record of the same shape
SimpleSelector(t) ==
    [t |-> t, name |-> "", lower_name |-> "", namespace |-> AnyNs,
     value |-> "", extra |-> "", a |-> 0, b |-> 0, negated |-> <<>>]

SelID(id)       == [SimpleSelector("ID") EXCEPT !.name = id]
SelClass(c)     == [SimpleSelector("Class") EXCEPT !.name = c]
SelLocalName(n) == [SimpleSelector("LocalName") EXCEPT
                        !.name = n, !.lower_name = to_ascii_lowercase(n)]
SelNamespace(ns) == [SimpleSelector("Namespace") EXCEPT !.name = ns]
SelNegation(alts) == [SimpleSelector("Negation") EXCEPT !.negated = alts]
SelNth(t, a, b) == [SimpleSelector(t) EXCEPT !.a = a, !.b = b]
SelNonTS(pc)    == [SimpleSelector("NonTSPseudoClass") EXCEPT !.name = pc]
\* AttrSelector {name, lower_name, namespace} inside an attribute variant
SelAttr(t, attr, value, extra) ==
    [SimpleSelector(t) EXCEPT !.name = attr.name, !.lower_name = attr.lower_name,
                              !.namespace = attr.namespace,
                              !.value = value, !.extra = extra]

ComplexSelector(compound, nxt) == [compound_selector |-> compound, next |-> nxt]

Selector(complex, pseudo, spec) ==
    [complex_selector |-> complex, pseudo_element |-> pseudo, specificity |-> spec]

(***************************************************************************)
(* tests::DummySelectorImpl, the host of the repository's own tests        *)
(***************************************************************************)
parse_non_ts_pseudo_class(ctx, name) ==
    IF to_ascii_lowercase(name) = "-servo-nonzero-border"
       /\ ctx.in_user_agent_stylesheet
    THEN Ok("ServoNonZeroBorder", 0) ELSE Err(0)

impl_parse_pseudo_element(ctx, name) ==
    CASE to_ascii_lowercase(name) = "before" -> Ok("Before", 0)
      [] to_ascii_lowercase(name) = "after"  -> Ok("After", 0)
      [] OTHER -> Err(0)

(***************************************************************************)
(* src/parser.rs: specificity of a parsed selector                         *)
(***************************************************************************)
ClassLikeVariants ==
    {"Class", "AttrExists", "AttrEqual", "AttrIncludes", "AttrDashMatch",
     "AttrPrefixMatch", "AttrSubstringMatch", "AttrSuffixMatch",
     "FirstChild", "LastChild", "OnlyChild", "Root", "Empty",
     "NthChild", "NthLastChild", "NthOfType", "NthLastOfType",
     "FirstOfType", "LastOfType", "OnlyOfType", "NonTSPseudoClass"}

\* an UnpackedSpecificity, or the panic of max().unwrap() on no alternative
Computed(u) == [panic |-> FALSE, v |-> u]
ComputePanicked == [panic |-> TRUE, v |-> UnpackedDefault]

\* a fold that adds the alternatives up
NegatedSum(x, y) == UnpackedAdd(x, y)

\* negated_specificities.max(): the fold of Iterator::max, None when empty
NegatedMaxBy(x, y) == UnpackedMax(x, y)

\* one arm of the match in compound_selector_specificity, Negation apart
SimpleSelectorCount(s, specificity) ==
    CASE s.t = "LocalName" ->
            [specificity EXCEPT !.element_selectors = @ + 1]
      [] s.t = "ID" ->
            [specificity EXCEPT !.id_selectors = @ + 1]
      [] s.t \in ClassLikeVariants ->
            [specificity EXCEPT !.class_like_selectors = @ + 1]
      [] OTHER -> specificity   \* Namespace

RECURSIVE complex_selector_specificity(_)
RECURSIVE compound_selector_specificity(_, _, _)
RECURSIVE NegatedMax(_, _, _)
RECURSIVE ChainWalk(_, _)

\* the Negation arm: *specificity = *specificity + max, m being
\* negated_specificities.max().unwrap()
AddNegated(compound, i, specificity, m) ==
    IF m.panic THEN ComputePanicked
    ELSE compound_selector_specificity(compound, i + 1, UnpackedAdd(specificity, m.v))

\* the for loop over compound_selector, from its i-th simple selector on
compound_selector_specificity(compound, i, specificity) ==
    IF i > Len(compound) THEN Computed(specificity)
    ELSE IF compound[i].t = "Negation"
         THEN AddNegated(compound, i, specificity,
                         NegatedMax(compound[i].negated, 1, None))
         ELSE compound_selector_specificity(compound, i + 1,
                  SimpleSelectorCount(compound[i], specificity))

\* one step of max() over the alternatives, c being the i-th one's specificity
NegatedMaxStep(negated, i, best, c) ==
    IF c.panic THEN ComputePanicked
    ELSE NegatedMax(negated, i + 1,
                    IF best = None THEN Some(c.v)
                    ELSE Some(NegatedMaxBy(best[1], c.v)))

\* negated.iter().map(complex_selector_specificity).max().unwrap()
NegatedMax(negated, i, best) ==
    IF i > Len(negated)
    THEN IF best = None THEN ComputePanicked ELSE Computed(best[1])
    ELSE NegatedMaxStep(negated, i, best, complex_selector_specificity(negated[i]))

\* a walk that stops at the rightmost compound
ChainWalkRightmostOnly(selector, c) == c

\* the loop over selector.next, c being the accumulator after selector
ChainWalk(selector, c) ==
    IF c.panic THEN ComputePanicked
    ELSE IF selector.next = None THEN c
    ELSE ChainWalk(selector.next[1][1],
                   compound_selector_specificity(
                       selector.next[1][1].compound_selector, 1, c.v))

complex_selector_specificity(selector) ==
    ChainWalk(selector,
              compound_selector_specificity(selector.compound_selector, 1,
                                            UnpackedDefault))

\* specificity.element_selectors += 1 for a pseudo-element, then into()
SpecificityInto(pseudo_element, c) ==
    IF c.panic THEN [panic |-> TRUE, v |-> 0]
    ELSE [panic |-> FALSE,
          v |-> Pack(IF pseudo_element # None
                     THEN [c.v EXCEPT !.element_selectors = @ + 1]
                     ELSE c.v)]

\* fn specificity(complex_selector, pseudo_element) -> Specificity
specificity(complex_selector, pseudo_element) ==
    SpecificityInto(pseudo_element, complex_selector_specificity(complex_selector))

(***************************************************************************)
(* src/parser.rs: qualified names and type selectors                       *)
(***************************************************************************)
QName(namespace, local_name) == [namespace |-> namespace, local_name |-> local_name]

\* the closure default_namespace
default_namespace(ctx, local_name, p) ==
    Ok(QName(IF ctx.default_namespace = None THEN AnyNs
             ELSE Specific(ctx.default_namespace[1]),
             local_name), p)

\* a closure that takes `*` for a local name in an attribute as well
explicit_namespace_star_anywhere(inp, p, namespace, in_attr_selector) ==
    LET n == next_including_whitespace(inp, p) IN
    CASE n.tok.k = "Delim" /\ n.tok.v = "*" -> Ok(QName(namespace, None), n.pos)
      [] n.tok.k = "Ident" -> Ok(QName(namespace, Some(n.tok.v)), n.pos)
      [] OTHER -> Err(n.pos)

\* the closure explicit_namespace
explicit_namespace(inp, p, namespace, in_attr_selector) ==
    LET n == next_including_whitespace(inp, p) IN
    CASE n.tok.k = "Delim" /\ n.tok.v = "*" /\ ~in_attr_selector ->
            Ok(QName(namespace, None), n.pos)
      [] n.tok.k = "Ident" ->
            Ok(QName(namespace, Some(n.tok.v)), n.pos)
      [] OTHER -> Err(n.pos)

\* a bare name that takes the default namespace wherever it stands
BareNameDefaulted(ctx, value, p, in_attr_selector) ==
    default_namespace(ctx, Some(value), p)

\* an identifier that no `|` follows: after input.reset(position), an
\* attribute name is in no namespace, a type name in the default one
BareName(ctx, value, p, in_attr_selector) ==
    IF in_attr_selector
    THEN Ok(QName(Specific(NoNamespace), Some(value)), p)
    ELSE default_namespace(ctx, Some(value), p)

parse_qualified_name(ctx, inp, p, in_attr_selector) ==
    LET position == p
        n1 == next_including_whitespace(inp, p)
        n2 == next_including_whitespace(inp, n1.pos)
    IN
    CASE n1.tok.k = "Ident" ->
            IF n2.tok.k = "Delim" /\ n2.tok.v = "|"
            THEN IF n1.tok.v \notin DOMAIN ctx.namespace_prefixes
                 THEN Err(n2.pos)
                 ELSE explicit_namespace(inp, n2.pos,
                          Specific(ctx.namespace_prefixes[n1.tok.v]),
                          in_attr_selector)
            ELSE BareName(ctx, n1.tok.v, n1.pos, in_attr_selector)
      [] n1.tok.k = "Delim" /\ n1.tok.v = "*" ->
            IF n2.tok.k = "Delim" /\ n2.tok.v = "|"
            THEN explicit_namespace(inp, n2.pos, AnyNs, in_attr_selector)
            ELSE IF in_attr_selector
                 THEN Err(n1.pos)
                 ELSE default_namespace(ctx, None, n1.pos)
      [] n1.tok.k = "Delim" /\ n1.tok.v = "|" ->
            explicit_namespace(inp, n1.pos, Specific(NoNamespace), in_attr_selector)
      [] OTHER -> OkNone(position)

\* the vector parse_type_selector builds from a qualified name
TypeSelectorVec(qname) ==
    (IF qname.namespace.any THEN <<>> ELSE <<SelNamespace(qname.namespace.ns)>>)
    \o (IF qname.local_name = None THEN <<>>
        ELSE <<SelLocalName(qname.local_name[1])>>)

\* a match that takes a failed qualified name for "not a type selector"
TypeSelectorOrNone(q) ==
    IF ~q.ok \/ ~q.some THEN OkNone(q.pos)
    ELSE Ok(TypeSelectorVec(q.v), q.pos)

\* the match of parse_type_selector on the qualified name q
TypeSelectorOf(q) ==
    IF ~q.ok THEN Try(q)
    ELSE IF ~q.some THEN OkNone(q.pos)
    ELSE Ok(TypeSelectorVec(q.v), q.pos)

parse_type_selector(ctx, inp, p) ==
    TypeSelectorOf(parse_qualified_name(ctx, inp, p, FALSE))

(***************************************************************************)
(* src/parser.rs: attribute selectors                                      *)
(***************************************************************************)
\* parse_value: input.expect_ident_or_string()
parse_value(inp, p) ==
    LET n == next(inp, p) IN
    IF n.tok.k \in {"Ident", "QuotedString"} THEN Ok(n.tok.v, n.pos) ELSE Err(n.pos)

\* flags that take any identifier for the `i`
parse_attribute_flags_any_ident(inp, p) ==
    LET n == next(inp, p) IN
    CASE n.tok.k = "Err" -> Ok("CaseSensitive", n.pos)
      [] n.tok.k = "Ident" -> Ok("CaseInsensitive", n.pos)
      [] OTHER -> Err(n.pos)

parse_attribute_flags(inp, p) ==
    LET n == next(inp, p) IN
    CASE n.tok.k = "Err" -> Ok("CaseSensitive", n.pos)
      [] n.tok.k = "Ident" /\ eq_ignore_ascii_case(n.tok.v, "i") ->
            Ok("CaseInsensitive", n.pos)
      [] OTHER -> Err(n.pos)

\* format!("{}-", value)
Dashing(value) == value \o "-"

\* the match on input.next() after the attribute's name
AttributeOperator(inp, p, attr) ==
    LET n == next(inp, p)
        value == parse_value(inp, n.pos)
        flags == parse_attribute_flags(inp, value.pos)
        Valued(t) == IF value.ok
                     THEN Ok(SelAttr(t, attr, value.v, ""), value.pos)
                     ELSE Try(value)
    IN
    CASE n.tok.k = "Err" -> Ok(SelAttr("AttrExists", attr, "", ""), n.pos)
      [] n.tok.k = "Delim" /\ n.tok.v = "=" ->
            IF ~value.ok THEN Try(value)
            ELSE IF ~flags.ok THEN Try(flags)
            ELSE Ok(SelAttr("AttrEqual", attr, value.v, flags.v), flags.pos)
      [] n.tok.k = "IncludeMatch" -> Valued("AttrIncludes")
      [] n.tok.k = "DashMatch" ->
            IF ~value.ok THEN Try(value)
            ELSE Ok(SelAttr("AttrDashMatch", attr, value.v, Dashing(value.v)),
                    value.pos)
      [] n.tok.k = "PrefixMatch" -> Valued("AttrPrefixMatch")
      [] n.tok.k = "SubstringMatch" -> Valued("AttrSubstringMatch")
      [] n.tok.k = "SuffixMatch" -> Valued("AttrSuffixMatch")
      [] OTHER -> Err(n.pos)

\* the match of parse_attribute_selector on the qualified name q
AttributeOf(inp, q) ==
    IF ~q.ok THEN Try(q)
    ELSE IF ~q.some THEN Err(q.pos)
    ELSE IF q.v.local_name = None THEN Panicked(q.pos)   \* unreachable!()
    ELSE AttributeOperator(inp, q.pos,
             [namespace |-> q.v.namespace,
              lower_name |-> to_ascii_lowercase(q.v.local_name[1]),
              name |-> q.v.local_name[1]])

parse_attribute_selector(ctx, inp, p) ==
    AttributeOf(inp, parse_qualified_name(ctx, inp, p, TRUE))

(***************************************************************************)
(* src/parser.rs: pseudo-classes                                           *)
(***************************************************************************)
parse_simple_pseudo_class(ctx, name) ==
    LET n == to_ascii_lowercase(name)
        host == parse_non_ts_pseudo_class(ctx, name)
    IN
    CASE n = "first-child"   -> Ok(SimpleSelector("FirstChild"), 0)
      [] n = "last-child"    -> Ok(SimpleSelector("LastChild"), 0)
      [] n = "only-child"    -> Ok(SimpleSelector("OnlyChild"), 0)
      [] n = "root"          -> Ok(SimpleSelector("Root"), 0)
      [] n = "empty"         -> Ok(SimpleSelector("Empty"), 0)
      [] n = "first-of-type" -> Ok(SimpleSelector("FirstOfType"), 0)
      [] n = "last-of-type"  -> Ok(SimpleSelector("LastOfType"), 0)
      [] n = "only-of-type"  -> Ok(SimpleSelector("OnlyOfType"), 0)
      [] OTHER -> IF host.ok THEN Ok(SelNonTS(host.v), 0) ELSE Err(0)

\* cssparser::parse_nth on the arguments of the model
parse_nth(inp, p) ==
    LET n == next(inp, p) IN
    CASE n.tok.k = "Ident" /\ n.tok.v = "odd"  -> Ok(<<2, 1>>, n.pos)
      [] n.tok.k = "Ident" /\ n.tok.v = "even" -> Ok(<<2, 0>>, n.pos)
      [] OTHER -> Err(n.pos)

\* Ok(selector(a, b))
NthOf(selector, ab) ==
    IF ~ab.ok THEN Try(ab) ELSE Ok(SelNth(selector, ab.v[1], ab.v[2]), ab.pos)

parse_nth_pseudo_class(inp, p, selector) == NthOf(selector, parse_nth(inp, p))

\* input.parse_nested_block(f): f's result r on the block's own parser inp,
\* which must then be exhausted
parse_nested_block(inp, r) ==
    IF ~r.ok THEN Try(r)
    ELSE IF Exhausted(inp, r.pos) THEN r
    ELSE Err(r.pos)

\* the cursor of the enclosing parser after a call on a nested one
At(r, p) == [r EXCEPT !.pos = p]

(***************************************************************************)
(* src/parser.rs: simple, compound and complex selectors                   *)
(***************************************************************************)
RECURSIVE parse_complex_selector(_, _, _)
RECURSIVE parse_compound_selector(_, _, _)
RECURSIVE parse_one_simple_selector(_, _, _)
RECURSIVE parse_functional_pseudo_class(_, _, _)
RECURSIVE parse_negation(_, _, _)
RECURSIVE NegationList(_, _, _, _)
RECURSIVE SimpleSelectorLoop(_, _, _, _)
RECURSIVE CombinatorLoop(_, _, _, _)

\* one round of input.parse_comma_separated(parse_complex_selector): r is
\* the item parsed by a parser that stops before the next comma, which it
\* must exhaust; then the comma is consumed, or the list ends with the input
NegationItem(ctx, inp, values, r) ==
    IF ~r.ok THEN Try(r)
    ELSE IF ~Exhausted(Parser(inp.ts, TRUE), r.pos) THEN Err(r.pos)
    ELSE IF AtEnd(inp, SkipWs(Parser(inp.ts, TRUE), r.pos))
         THEN Ok(Append(values, r.v), SkipWs(Parser(inp.ts, TRUE), r.pos))
    ELSE NegationList(ctx, inp, SkipWs(Parser(inp.ts, TRUE), r.pos) + 1,
                      Append(values, r.v))

NegationList(ctx, inp, p, values) ==
    NegationItem(ctx, inp, values,
                 parse_complex_selector(ctx, Parser(inp.ts, TRUE), p))

\* .map(Vec::into_boxed_slice).map(SimpleSelector::Negation)
NegationOf(r) == IF ~r.ok THEN Try(r) ELSE Ok(SelNegation(r.v), r.pos)

parse_negation(ctx, inp, p) == NegationOf(NegationList(ctx, inp, p, <<>>))

parse_functional_pseudo_class(ctx, inp, name) ==
    LET n == to_ascii_lowercase(name) IN
    CASE n = "nth-child"        -> parse_nth_pseudo_class(inp, 1, "NthChild")
      [] n = "nth-of-type"      -> parse_nth_pseudo_class(inp, 1, "NthOfType")
      [] n = "nth-last-child"   -> parse_nth_pseudo_class(inp, 1, "NthLastChild")
      [] n = "nth-last-of-type" -> parse_nth_pseudo_class(inp, 1, "NthLastOfType")
      [] n = "not"              -> parse_negation(ctx, inp, 1)
      [] OTHER -> Err(1)

\* an Ok(None) that leaves the cursor behind the name it read
SimplePseudoClassOrStay(pseudo_class, start_position, p) ==
    IF pseudo_class.ok THEN Ok(pseudo_class.v, p) ELSE OkNone(p)

\* Ok(Some(..)) of a simple pseudo-class, or the rewind to start_position
SimplePseudoClassOr(pseudo_class, start_position, p) ==
    IF pseudo_class.ok THEN Ok(pseudo_class.v, p) ELSE OkNone(start_position)

\* the match of parse_one_simple_selector on its first token n1 and, where
\* one is read, its second token n2
OneSimpleSelectorOf(ctx, start_position, n1, n2) ==
    CASE n1.tok.k = "IDHash" -> Ok(SelID(n1.tok.v), n1.pos)
      [] n1.tok.k = "Delim" /\ n1.tok.v = "." ->
            IF n2.tok.k = "Ident" THEN Ok(SelClass(n2.tok.v), n2.pos)
            ELSE Err(n2.pos)
      [] n1.tok.k = "SquareBracketBlock" ->
            At(parse_nested_block(Parser(n1.tok.body, FALSE),
                   parse_attribute_selector(ctx, Parser(n1.tok.body, FALSE), 1)),
               n1.pos)
      [] n1.tok.k = "Colon" ->
            CASE n2.tok.k = "Ident" ->
                    SimplePseudoClassOr(parse_simple_pseudo_class(ctx, n2.tok.v),
                                        start_position, n2.pos)
              [] n2.tok.k = "Function" ->
                    At(parse_nested_block(Parser(n2.tok.body, FALSE),
                           parse_functional_pseudo_class(
                               ctx, Parser(n2.tok.body, FALSE), n2.tok.v)),
                       n2.pos)
              [] n2.tok.k = "Colon" -> OkNone(start_position)
              [] OTHER -> Err(n2.pos)
      [] OTHER -> OkNone(start_position)

\* the token after n
Following(inp, n) == next_including_whitespace(inp, n.pos)

OneSimpleSelectorFrom(ctx, inp, p, n1) ==
    OneSimpleSelectorOf(ctx, p, n1, Following(inp, n1))

\* a parse_one_simple_selector that resets the cursor whatever it returns
parse_one_simple_selector_rewinding(ctx, inp, p) ==
    [OneSimpleSelectorFrom(ctx, inp, p, next_including_whitespace(inp, p))
        EXCEPT !.pos = p]

parse_one_simple_selector(ctx, inp, p) ==
    OneSimpleSelectorFrom(ctx, inp, p, next_including_whitespace(inp, p))

\* one round of the loop of parse_compound_selector, r being what
\* parse_one_simple_selector returned
SimpleSelectorStep(ctx, inp, compound_selector, r) ==
    IF ~r.ok THEN Try(r)
    ELSE IF ~r.some THEN Ok(compound_selector, r.pos)
    ELSE SimpleSelectorLoop(ctx, inp, r.pos, Append(compound_selector, r.v))

SimpleSelectorLoop(ctx, inp, p, compound_selector) ==
    SimpleSelectorStep(ctx, inp, compound_selector,
                       parse_one_simple_selector(ctx, inp, p))

\* try!(parse_type_selector(..)).unwrap_or(vec![]), then the loop
CompoundAfterType(ctx, inp, t) ==
    IF ~t.ok THEN Try(t)
    ELSE SimpleSelectorLoop(ctx, inp, t.pos, IF t.some THEN t.v ELSE <<>>)

parse_compound_selector(ctx, inp, p) ==
    CompoundAfterType(ctx, inp, parse_type_selector(ctx, inp, p))

\* the inner loop of parse_complex_selector: brk is TRUE for
\* `break 'outer_loop`, otherwise combinator is the one found
RECURSIVE FindCombinator(_, _, _)

\* a match that takes the first whitespace for the combinator
CombinatorOfEager(inp, position, any_whitespace, n) ==
    CASE n.tok.k = "Err" -> [brk |-> TRUE, combinator |-> "", pos |-> n.pos]
      [] n.tok.k = "WhiteSpace" ->
            [brk |-> FALSE, combinator |-> "Descendant", pos |-> n.pos]
      [] n.tok.k = "Delim" /\ n.tok.v = ">" ->
            [brk |-> FALSE, combinator |-> "Child", pos |-> n.pos]
      [] n.tok.k = "Delim" /\ n.tok.v = "+" ->
            [brk |-> FALSE, combinator |-> "NextSibling", pos |-> n.pos]
      [] n.tok.k = "Delim" /\ n.tok.v = "~" ->
            [brk |-> FALSE, combinator |-> "LaterSibling", pos |-> n.pos]
      [] OTHER -> [brk |-> TRUE, combinator |-> "", pos |-> position]

\* the match of the inner loop on the token n read at position
CombinatorOf(inp, position, any_whitespace, n) ==
    CASE n.tok.k = "Err" -> [brk |-> TRUE, combinator |-> "", pos |-> n.pos]
      [] n.tok.k = "WhiteSpace" -> FindCombinator(inp, n.pos, TRUE)
      [] n.tok.k = "Delim" /\ n.tok.v = ">" ->
            [brk |-> FALSE, combinator |-> "Child", pos |-> n.pos]
      [] n.tok.k = "Delim" /\ n.tok.v = "+" ->
            [brk |-> FALSE, combinator |-> "NextSibling", pos |-> n.pos]
      [] n.tok.k = "Delim" /\ n.tok.v = "~" ->
            [brk |-> FALSE, combinator |-> "LaterSibling", pos |-> n.pos]
      [] OTHER ->
            IF any_whitespace
            THEN [brk |-> FALSE, combinator |-> "Descendant", pos |-> position]
            ELSE [brk |-> TRUE, combinator |-> "", pos |-> position]

FindCombinator(inp, p, any_whitespace) ==
    CombinatorOf(inp, p, any_whitespace, next_including_whitespace(inp, p))

\* skip_whitespace(input)
skip_whitespace(inp, p) == SkipWs(inp, p)

\* the end of a round of 'outer_loop: the compound parsed after the
\* combinator is linked in front of the chain so far
LinkCompound(ctx, inp, complex, combinator, compound) ==
    IF ~compound.ok THEN Try(compound)
    ELSE IF compound.v = <<>>
         THEN Ok(ComplexSelector(compound.v, Some(<<complex, combinator>>)),
                 compound.pos)
    ELSE CombinatorLoop(ctx, inp, compound.pos,
                        ComplexSelector(compound.v, Some(<<complex, combinator>>)))

\* a round of 'outer_loop after its inner loop returned f
AfterCombinator(ctx, inp, complex, f) ==
    IF f.brk THEN Ok(complex, f.pos)
    ELSE LinkCompound(ctx, inp, complex, f.combinator,
             parse_compound_selector(ctx, inp,
                 IF f.combinator # "Descendant" THEN skip_whitespace(inp, f.pos)
                 ELSE f.pos))

\* 'outer_loop of parse_complex_selector
CombinatorLoop(ctx, inp, p, complex) ==
    AfterCombinator(ctx, inp, complex, FindCombinator(inp, p, FALSE))

\* parse_complex_selector after its first compound
ComplexAfterFirst(ctx, inp, compound) ==
    IF ~compound.ok THEN Try(compound)
    ELSE IF compound.v = <<>> THEN Ok(ComplexSelector(compound.v, None), compound.pos)
    ELSE CombinatorLoop(ctx, inp, compound.pos, ComplexSelector(compound.v, None))

parse_complex_selector(ctx, inp, p) ==
    ComplexAfterFirst(ctx, inp,
                      parse_compound_selector(ctx, inp, skip_whitespace(inp, p)))

(***************************************************************************)
(* src/parser.rs: pseudo-elements, selectors and selector lists            *)
(***************************************************************************)
is_legacy_pseudo_element(name) ==
    to_ascii_lowercase(name) \in {"before", "after", "first-line", "first-letter"}

\* Impl::parse_pseudo_element(context, &name).map(Some)
HostPseudoElement(h, p) == IF h.ok THEN Ok(Some(h.v), p) ELSE Err(p)

\* a match that takes a name that is no CSS 2.1 pseudo-element for
\* "no pseudo-element here"
PseudoElementOfRewinding(ctx, start_position, n1, n2, n3) ==
    IF n1.tok.k # "Colon" THEN OkNone(start_position)
    ELSE CASE n2.tok.k = "Ident" ->
                 IF is_legacy_pseudo_element(n2.tok.v)
                 THEN HostPseudoElement(impl_parse_pseudo_element(ctx, n2.tok.v), n2.pos)
                 ELSE OkNone(start_position)
           [] n2.tok.k = "Colon" ->
                 IF n3.tok.k = "Ident"
                 THEN HostPseudoElement(impl_parse_pseudo_element(ctx, n3.tok.v), n3.pos)
                 ELSE Err(n3.pos)
           [] OTHER -> Err(n2.pos)

\* parse_pseudo_element on the three tokens it may read
PseudoElementOf(ctx, start_position, n1, n2, n3) ==
    IF n1.tok.k # "Colon" THEN OkNone(start_position)
    ELSE CASE n2.tok.k = "Ident" ->
                 IF is_legacy_pseudo_element(n2.tok.v)
                 THEN HostPseudoElement(impl_parse_pseudo_element(ctx, n2.tok.v), n2.pos)
                 ELSE Err(n2.pos)
           [] n2.tok.k = "Colon" ->
                 IF n3.tok.k = "Ident"
                 THEN HostPseudoElement(impl_parse_pseudo_element(ctx, n3.tok.v), n3.pos)
                 ELSE Err(n3.pos)
           [] OTHER -> Err(n2.pos)

PseudoElementFrom2(ctx, inp, p, n1, n2) ==
    PseudoElementOf(ctx, p, n1, n2, Following(inp, n2))

PseudoElementFrom1(ctx, inp, p, n1) ==
    PseudoElementFrom2(ctx, inp, p, n1, Following(inp, n1))

parse_pseudo_element(ctx, inp, p) ==
    PseudoElementFrom1(ctx, inp, p, next_including_whitespace(inp, p))

\* the Selector built from the chain and the pseudo-element
BuildSelector(complex, pseudo_element, p, sp) ==
    IF sp.panic THEN Panicked(p)
    ELSE Ok(Selector(complex, pseudo_element, sp.v), p)

\* the end of parse_selector, without its test for an empty selector
SelectorOfUnchecked(complex, pe) ==
    IF ~complex.ok THEN Try(complex)
    ELSE IF ~pe.ok THEN Try(pe)
    ELSE BuildSelector(complex.v, pe.v, pe.pos, specificity(complex.v, pe.v))

\* the end of parse_selector: complex and pe are what parse_complex_selector
\* and parse_pseudo_element returned
SelectorOf(complex, pe) ==
    IF ~complex.ok THEN Try(complex)
    ELSE IF ~pe.ok THEN Try(pe)
    ELSE IF complex.v.compound_selector # <<>> \/ pe.v # None
         THEN BuildSelector(complex.v, pe.v, pe.pos, specificity(complex.v, pe.v))
         ELSE Err(pe.pos)

SelectorAfterComplex(ctx, inp, complex) ==
    SelectorOf(complex, parse_pseudo_element(ctx, inp, complex.pos))

parse_selector(ctx, inp, p) ==
    SelectorAfterComplex(ctx, inp, parse_complex_selector(ctx, inp, p))

RECURSIVE SelectorList(_, _, _, _)

\* a round that drops an item that fails and goes on with the next
RECURSIVE ToDelimiter(_, _)
ToDelimiter(inp, i) ==
    IF AtEnd(Parser(inp.ts, TRUE), i) THEN i ELSE ToDelimiter(inp, i + 1)

SelectorItemLenient(ctx, inp, p, values, r) ==
    IF r.ok /\ Exhausted(Parser(inp.ts, TRUE), r.pos)
    THEN IF AtEnd(inp, SkipWs(Parser(inp.ts, TRUE), r.pos))
         THEN Ok(Append(values, r.v), SkipWs(Parser(inp.ts, TRUE), r.pos))
         ELSE SelectorList(ctx, inp, SkipWs(Parser(inp.ts, TRUE), r.pos) + 1,
                           Append(values, r.v))
    ELSE IF AtEnd(inp, ToDelimiter(inp, p))
         THEN (IF values = <<>> THEN Err(p) ELSE Ok(values, ToDelimiter(inp, p)))
         ELSE SelectorList(ctx, inp, ToDelimiter(inp, p) + 1, values)

\* one round of input.parse_comma_separated(parse_selector), as NegationItem
SelectorItem(ctx, inp, p, values, r) ==
    IF ~r.ok THEN Try(r)
    ELSE IF ~Exhausted(Parser(inp.ts, TRUE), r.pos) THEN Err(r.pos)
    ELSE IF AtEnd(inp, SkipWs(Parser(inp.ts, TRUE), r.pos))
         THEN Ok(Append(values, r.v), SkipWs(Parser(inp.ts, TRUE), r.pos))
    ELSE SelectorList(ctx, inp, SkipWs(Parser(inp.ts, TRUE), r.pos) + 1,
                      Append(values, r.v))

SelectorList(ctx, inp, p, values) ==
    SelectorItem(ctx, inp, p, values, parse_selector(ctx, Parser(inp.ts, TRUE), p))

parse_selector_list(ctx, inp) == SelectorList(ctx, inp, 1, <<>>)

\* ParserContext::new()
ParserContextNew == [in_user_agent_stylesheet |-> FALSE,
                     default_namespace |-> None,
                     namespace_prefixes |-> <<>>]

parse_author_origin_selector_list_from_str(ts) ==
    parse_selector_list(ParserContextNew, Parser(ts, FALSE))

(***************************************************************************)
(* Driver of the arithmetic: two unpacked values are packed, then either   *)
(* added in packed form or unpacked again.                                 *)
(***************************************************************************)
TierVals == (0..MaxLow) \cup (MAX_10BIT..(MAX_10BIT + MaxOver))

Unpackeds ==
    {UnpackedSpecificity(i, c, e) : i \in TierVals, c \in TierVals, e \in TierVals}

ArithInit ==
    /\ step = "start"
    /\ build \in {"debug", "release"}
    /\ ua \in Unpackeds
    /\ ub \in Unpackeds
    /\ pa = 0 /\ pb = 0
    /\ psum = [panic |-> FALSE, v |-> 0]
    /\ back = UnpackedDefault
    /\ context = ParserContextNew
    /\ input = <<>>
    /\ written = 0
    /\ result = Err(0)
    /\ bounds = <<BoundsDefault, BoundsDefault, BoundsDefault>>
    /\ bout = BoundsDefault
    /\ cursor = 1
    /\ acc = <<>>

PackBoth ==
    /\ step = "start"
    /\ pa' = Pack(ua)
    /\ pb' = Pack(ub)
    /\ step' = "packed"
    /\ UNCHANGED <<build, ua, ub, psum, back, context, input, written, result,
                 boundsVars, loopVars>>

AddPacked ==
    /\ step = "packed"
    /\ psum' = SpecificityAdd(pa, pb, build)
    /\ step' = "added"
    /\ UNCHANGED <<build, ua, ub, pa, pb, back, context, input, written, result,
                 boundsVars, loopVars>>

UnpackPacked ==
    /\ step = "packed"
    /\ back' = Unpack(pa)
    /\ step' = "unpacked"
    /\ UNCHANGED <<build, ua, ub, pa, pb, psum, context, input, written, result,
                 boundsVars, loopVars>>

ArithNext == PackBoth \/ AddPacked \/ UnpackPacked

SpecArith == ArithInit /\ [][ArithNext]_vars

(***************************************************************************)
(* Drivers of Bounds: three Bounds are chosen and widened with each other, *)
(* or one is chosen and packed.                                            *)
(***************************************************************************)
\* nothing called yet on the Bounds chosen
BoundsIdle ==
    /\ step = "start"
    /\ build = "release"
    /\ ua = UnpackedDefault /\ ub = UnpackedDefault
    /\ pa = 0 /\ pb = 0
    /\ psum = [panic |-> FALSE, v |-> 0]
    /\ back = UnpackedDefault
    /\ context = ParserContextNew
    /\ input = <<>>
    /\ written = 0
    /\ result = Err(0)
    /\ bout = BoundsDefault
    /\ cursor = 1
    /\ acc = <<>>

\* SpecWiden: the ends are the counts of at most MaxWeight simple selectors
LightUnpackeds ==
    {u \in {UnpackedSpecificity(i, c, e) :
                i \in 0..MaxWeight, c \in 0..MaxWeight, e \in 0..MaxWeight} :
        u.id_selectors + u.class_like_selectors + u.element_selectors <= MaxWeight}

LightBounds == {Bounds(lo, hi) : lo \in LightUnpackeds, hi \in LightUnpackeds}

WidenInit ==
    /\ BoundsIdle
    /\ bounds \in {<<a, b, c>> : a \in LightBounds, b \in LightBounds, c \in LightBounds}

\* widen called on the three Bounds in every grouping
Widen ==
    /\ step = "start"
    /\ bout' = [ab   |-> widen(bounds[1], bounds[2]),
                ba   |-> widen(bounds[2], bounds[1]),
                aa   |-> widen(bounds[1], bounds[1]),
                ab_c |-> widen(widen(bounds[1], bounds[2]), bounds[3]),
                a_bc |-> widen(bounds[1], widen(bounds[2], bounds[3]))]
    /\ step' = "widened"
    /\ UNCHANGED <<build, ua, ub, pa, pb, psum, back, context, input, written,
                   result, bounds, loopVars>>

WidenNext == Widen

SpecWiden == WidenInit /\ [][WidenNext]_vars

\* SpecPackBounds: one Bounds with ends at, below and above MAX_10BIT
PackBoundsInit ==
    /\ BoundsIdle
    /\ bounds \in {<<Bounds(lo, hi), BoundsDefault, BoundsDefault>> :
                      lo \in Unpackeds, hi \in Unpackeds}

PackBounds ==
    /\ step = "start"
    /\ bout' = BoundsPack(bounds[1])
    /\ step' = "bounds packed"
    /\ UNCHANGED <<build, ua, ub, pa, pb, psum, back, context, input, written,
                   result, bounds, loopVars>>

PackBoundsNext == PackBounds

SpecPackBounds == PackBoundsInit /\ [][PackBoundsNext]_vars

(***************************************************************************)
(* SpecTrack: two Bounds<UnpackedSpecificity> start at their default and   *)
(* are incremented, widened by and added to each other or themselves, in   *)
(* a debug or a release build.  An operation that overflows in a debug     *)
(* build panics and ends the run.                                          *)
(***************************************************************************)
Trackers == {1, 2}

Ones(u) ==
    Cardinality(u.id_selectors) + Cardinality(u.class_like_selectors)
    + Cardinality(u.element_selectors)

\* the first tracker holds counts of up to MaxOnes one-bits at each end,
\* the second tracker counts of up to MaxOnes selectors
Within(i, b) ==
    /\ Ones(b.min) <= MaxOnes /\ Ones(b.max) <= MaxOnes
    /\ i = 2 => \A tier \in Tiers : b.min[tier] \subseteq One /\ b.max[tier] \subseteq One

TrackInit ==
    /\ step = "start"
    /\ build \in {"debug", "release"}
    /\ ua = UnpackedDefault /\ ub = UnpackedDefault
    /\ pa = 0 /\ pb = 0
    /\ psum = [panic |-> FALSE, v |-> 0]
    /\ back = UnpackedDefault
    /\ context = ParserContextNew
    /\ input = <<>>
    /\ written = 0
    /\ result = Err(0)
    /\ bounds = <<BoundsDefault_u32, BoundsDefault_u32, BoundsDefault_u32>>
    /\ bout = BoundsDefault_u32
    /\ cursor = 1
    /\ acc = <<>>

\* the operation on tracker i returns b, or panics
Tracked(i, b, overflows) ==
    /\ IF build = "debug" /\ overflows
       THEN step' = "panicked" /\ UNCHANGED boundsVars
       ELSE /\ Within(i, b)
            /\ bounds' = [bounds EXCEPT ![i] = b]
            /\ bout' = b
            /\ step' = "tracked"
    /\ UNCHANGED <<build, ua, ub, pa, pb, psum, back, context, input, written,
                   result, loopVars>>

IncrIdSelectors ==
    /\ step # "panicked"
    /\ \E i \in Trackers :
           Tracked(i, incr_id_selectors_u32(bounds[i]),
                   IncrOverflows(bounds[i], "id_selectors"))

IncrClassLikeSelectors ==
    /\ step # "panicked"
    /\ \E i \in Trackers :
           Tracked(i, incr_class_like_selectors_u32(bounds[i]),
                   IncrOverflows(bounds[i], "class_like_selectors"))

IncrElementSelectors ==
    /\ step # "panicked"
    /\ \E i \in Trackers :
           Tracked(i, incr_element_selectors_u32(bounds[i]),
                   IncrOverflows(bounds[i], "element_selectors"))

WidenBounds ==
    /\ step # "panicked"
    /\ \E i \in Trackers, j \in Trackers :
           Tracked(i, widen_u32(bounds[i], bounds[j]), FALSE)

AddBounds ==
    /\ step # "panicked"
    /\ \E i \in Trackers, j \in Trackers :
           Tracked(i, BoundsAdd_u32(bounds[i], bounds[j]),
                   BoundsAddOverflows(bounds[i], bounds[j]))

TrackNext ==
    \/ IncrIdSelectors
    \/ IncrClassLikeSelectors
    \/ IncrElementSelectors
    \/ WidenBounds
    \/ AddBounds

SpecTrack == TrackInit /\ [][TrackNext]_vars

(***************************************************************************)
(* Driver of the parser: a context and a token stream are chosen, and      *)
(* parse_selector_list is called on them once.                             *)
(***************************************************************************)
UserAgentContext == [ParserContextNew EXCEPT !.in_user_agent_stylesheet = TRUE]

\* a user-agent sheet with a default namespace and one declared prefix
RichContext == [in_user_agent_stylesheet |-> TRUE,
                default_namespace |-> Some("mathml"),
                namespace_prefixes |-> [x \in {"svg"} |-> "SVG"]]

\* nothing written yet
ParseIdle(ctxs) ==
    /\ step = "start"
    /\ build = "release"
    /\ ua = UnpackedDefault /\ ub = UnpackedDefault
    /\ pa = 0 /\ pb = 0
    /\ psum = [panic |-> FALSE, v |-> 0]
    /\ back = UnpackedDefault
    /\ context \in ctxs
    /\ input = <<>>
    /\ written = 0
    /\ result = Err(0)
    /\ bounds = <<BoundsDefault, BoundsDefault, BoundsDefault>>
    /\ bout = BoundsDefault
    /\ cursor = 1
    /\ acc = <<>>

\* the caller writes one more piece of the selector list
Write(pieces, n) ==
    /\ step = "start"
    /\ written < n
    /\ \E piece \in pieces : input' = input \o piece
    /\ written' = written + 1
    /\ UNCHANGED <<step, build, ua, ub, pa, pb, psum, back, context, result,
                 boundsVars, loopVars>>

ParseSelectorList ==
    /\ step = "start"
    /\ result' = parse_selector_list(context, Parser(input, FALSE))
    /\ step' = "parsed"
    /\ UNCHANGED <<build, ua, ub, pa, pb, psum, back, context, input, written,
                 boundsVars, loopVars>>

\* Spec: selector lists written from at most MaxPieces of these pieces,
\* well-formed or not
Pieces ==
    { <<Ident("E")>>, <<Delim("."), Ident("c")>>, <<Delim(".")>>,
      <<WhiteSpace>>, <<Delim(">")>>, <<Comma>>, <<Delim("*")>>,
      <<Colon, Colon, Ident("before")>>, <<Colon, Ident("After")>> }

Init == ParseIdle({ParserContextNew})

Next == Write(Pieces, MaxPieces) \/ ParseSelectorList

Spec == Init /\ [][Next]_vars

\* SpecCount: selectors of every simple-selector variant but Negation
CountPieces ==
    { <<Ident("E")>>, <<IDHash("i")>>, <<Delim("."), Ident("c")>>,
      <<SquareBracketBlock(<<Ident("Foo")>>)>>,
      <<Colon, Ident("ROOT")>>,
      <<Colon, Function("nth-child", <<Ident("odd")>>)>>,
      <<Colon, Ident("-servo-nonzero-border")>>,
      <<Delim("*")>>, <<WhiteSpace>>, <<Delim(">")>>,
      <<Colon, Colon, Ident("before")>> }

CountInit == ParseIdle({ParserContextNew, RichContext})

CountNext == Write(CountPieces, MaxCountPieces) \/ ParseSelectorList

SpecCount == CountInit /\ [][CountNext]_vars

\* the caller writes one more piece between the parentheses of the :not()
\* that the selector ends with so far
WriteInNot(pieces, n) ==
    /\ step = "start"
    /\ written < n
    /\ input # <<>>
    /\ input[Len(input)].k = "Function"
    /\ \E piece \in pieces :
           input' = [input EXCEPT ![Len(input)].body = @ \o piece]
    /\ written' = written + 1
    /\ UNCHANGED <<step, build, ua, ub, pa, pb, psum, back, context, result,
                 boundsVars, loopVars>>

\* SpecNot: selectors with :not(), its arguments written piece by piece
NotPieces ==
    { <<Ident("E")>>, <<Delim("."), Ident("c")>>, <<WhiteSpace>>,
      <<Colon, Function("not", <<>>)>>, <<Colon, Colon, Ident("before")>> }

NotArgPieces ==
    { <<Ident("E")>>, <<Delim("."), Ident("c")>>, <<IDHash("i")>>,
      <<WhiteSpace>>, <<Comma>> }

NotInit == ParseIdle({ParserContextNew})

NotNext ==
    \/ Write(NotPieces, MaxNotPieces)
    \/ WriteInNot(NotArgPieces, MaxNotPieces)
    \/ ParseSelectorList

SpecNot == NotInit /\ [][NotNext]_vars

\* SpecChain: compounds and what stands between them, handed to
\* parse_complex_selector
ParseComplexSelector ==
    /\ step = "start"
    /\ result' = parse_complex_selector(context, Parser(input, FALSE), 1)
    /\ step' = "complex"
    /\ UNCHANGED <<build, ua, ub, pa, pb, psum, back, context, input, written,
                 boundsVars, loopVars>>

ChainPieces ==
    { <<Ident("E")>>, <<Delim("."), Ident("c")>>, <<WhiteSpace>>,
      <<Delim(">")>>, <<Delim("+")>>, <<Delim("~")>> }

ChainInit == ParseIdle({ParserContextNew})

ChainNext == Write(ChainPieces, MaxChainPieces) \/ ParseComplexSelector

SpecChain == ChainInit /\ [][ChainNext]_vars

\* SpecNs: qualified names under every combination of a default namespace
\* and a declared prefix, handed to parse_selector_list or to
\* parse_type_selector
ParseTypeSelector ==
    /\ step = "start"
    /\ result' = parse_type_selector(context, Parser(input, FALSE), 1)
    /\ step' = "typed"
    /\ UNCHANGED <<build, ua, ub, pa, pb, psum, back, context, input, written,
                 boundsVars, loopVars>>

NsContexts ==
    { [in_user_agent_stylesheet |-> FALSE,
       default_namespace |-> d,
       namespace_prefixes |-> m] :
      d \in {None, Some("mathml")},
      m \in {<<>>, [x \in {"svg"} |-> "SVG"]} }

NsPieces ==
    { <<Ident("E")>>, <<Ident("svg")>>, <<Delim("|")>>, <<Delim("*")>>,
      <<SquareBracketBlock(<<Ident("Foo")>>)>>,
      <<SquareBracketBlock(<<Ident("svg"), Delim("|"), Ident("Foo")>>)>>,
      <<Delim("."), Ident("c")>>, <<WhiteSpace>> }

NsInit == ParseIdle(NsContexts)

NsNext ==
    \/ Write(NsPieces, MaxNsPieces)
    \/ ParseSelectorList
    \/ ParseTypeSelector

SpecNs == NsInit /\ [][NsNext]_vars

\* SpecAttr: the tokens between the brackets of an attribute selector,
\* handed to parse_attribute_selector as parse_nested_block does
ParseAttributeSelector ==
    /\ step = "start"
    /\ result' = parse_attribute_selector(context, Parser(input, FALSE), 1)
    /\ step' = "attribute"
    /\ UNCHANGED <<build, ua, ub, pa, pb, psum, back, context, input, written,
                   boundsVars, loopVars>>

AttrPieces ==
    { <<Ident("Foo")>>, <<Ident("I")>>, <<Ident("i")>>, <<QuotedString("v")>>,
      <<Delim("=")>>, <<IncludeMatch>>, <<DashMatch>>, <<PrefixMatch>>,
      <<SubstringMatch>>, <<SuffixMatch>>, <<WhiteSpace>>, <<Delim(">")>> }

AttrInit == ParseIdle({ParserContextNew, RichContext})

AttrNext == Write(AttrPieces, MaxAttrPieces) \/ ParseAttributeSelector

SpecAttr == AttrInit /\ [][AttrNext]_vars

\* the caller writes one more piece between the brackets that the selector
\* ends with so far
WriteInBlock(pieces, n) ==
    /\ step = "start"
    /\ written < n
    /\ input # <<>>
    /\ input[Len(input)].k = "SquareBracketBlock"
    /\ \E piece \in pieces :
           input' = [input EXCEPT ![Len(input)].body = @ \o piece]
    /\ written' = written + 1
    /\ UNCHANGED <<step, build, ua, ub, pa, pb, psum, back, context, result,
                   boundsVars, loopVars>>

\* where the cursor may stand on entry
Positions == 1..(Len(input) + 1)

\* parse_qualified_name called as parse_attribute_selector calls it
ParseAttributeNameAt ==
    /\ step = "start"
    /\ \E p \in Positions :
          /\ cursor' = p
          /\ result' = parse_qualified_name(context, Parser(input, FALSE), p, TRUE)
    /\ step' = "attribute name"
    /\ UNCHANGED <<build, ua, ub, pa, pb, psum, back, context, input, written,
                   boundsVars, acc>>

\* SpecSafe: the inputs on which a panic could be reached: universal
\* names in attribute position, and :not() with any number of arguments
SafePieces ==
    { <<Ident("E")>>, <<Delim("*")>>, <<Delim("|")>>,
      <<SquareBracketBlock(<<>>)>>, <<Colon, Function("not", <<>>)>> }

SafeBlockPieces ==
    { <<Ident("Foo")>>, <<Ident("svg")>>, <<Delim("*")>>, <<Delim("|")>> }

SafeArgPieces ==
    { <<Ident("E")>>, <<Comma>>,
      <<SquareBracketBlock(<<Delim("*")>>)>>,
      <<SquareBracketBlock(<<Delim("*"), Delim("|"), Delim("*")>>)>> }

SafeInit == ParseIdle({ParserContextNew, RichContext})

SafeNext ==
    \/ Write(SafePieces, MaxSafePieces)
    \/ WriteInBlock(SafeBlockPieces, MaxSafePieces)
    \/ WriteInNot(SafeArgPieces, MaxSafePieces)
    \/ ParseSelectorList
    \/ ParseAttributeNameAt

SpecSafe == SafeInit /\ [][SafeNext]_vars

\* SpecLoop: parse_complex_selector run one loop iteration at a time.
\* acc holds the chain built so far (complex), the link the compound under
\* construction will get (link) and its simple selectors so far (compound).
LoopState(complex, link, compound) ==
    [complex |-> complex, link |-> link, compound |-> compound]

\* the function returns r
Return(r) ==
    /\ result' = r
    /\ cursor' = r.pos
    /\ step' = "returned"
    /\ UNCHANGED acc

\* parse_compound_selector is entered at p: the type selector is tried
\* and the loop over simple selectors begins
BeginCompound(p, link, t) ==
    IF ~t.ok THEN Return(Try(t))
    ELSE /\ acc' = LoopState(acc.complex, link, IF t.some THEN t.v ELSE <<>>)
         /\ cursor' = t.pos
         /\ step' = "compound loop"
         /\ UNCHANGED result

EnterComplexSelector ==
    /\ step = "start"
    /\ acc = <<>>
    /\ acc' = LoopState(None, None, <<>>)
    /\ cursor' = skip_whitespace(Parser(input, FALSE), 1)
    /\ step' = "entered"
    /\ UNCHANGED <<build, ua, ub, pa, pb, psum, back, context, input, written,
                   result, boundsVars>>

FirstCompound ==
    /\ step = "entered"
    /\ BeginCompound(cursor, None,
                     parse_type_selector(context, Parser(input, FALSE), cursor))
    /\ UNCHANGED <<build, ua, ub, pa, pb, psum, back, context, input, written,
                   boundsVars>>

\* one round of the loop of parse_compound_selector, r being what
\* parse_one_simple_selector returned; when the loop ends the compound is
\* put in front of the chain, and an empty one ends parse_complex_selector
SimpleSelectorRound(r) ==
    IF ~r.ok THEN Return(Try(r))
    ELSE IF r.some
    THEN /\ acc' = [acc EXCEPT !.compound = Append(@, r.v)]
         /\ cursor' = r.pos
         /\ UNCHANGED <<step, result>>
    ELSE IF acc.compound = <<>>
    THEN Return(Ok(ComplexSelector(acc.compound, acc.link), r.pos))
    ELSE /\ acc' = LoopState(Some(ComplexSelector(acc.compound, acc.link)),
                             None, <<>>)
         /\ cursor' = r.pos
         /\ step' = "combinator loop"
         /\ UNCHANGED result

SimpleSelectorIteration ==
    /\ step = "compound loop"
    /\ SimpleSelectorRound(
           parse_one_simple_selector(context, Parser(input, FALSE), cursor))
    /\ UNCHANGED <<build, ua, ub, pa, pb, psum, back, context, input, written,
                   boundsVars>>

\* one round of 'outer_loop up to the call of parse_compound_selector, f
\* being what its inner loop found
CombinatorRound(f, p) ==
    IF f.brk THEN Return(Ok(acc.complex[1], f.pos))
    ELSE BeginCompound(p, Some(<<acc.complex[1], f.combinator>>),
                       parse_type_selector(context, Parser(input, FALSE), p))

\* where the compound behind the combinator begins
BehindCombinator(f) ==
    IF f.combinator # "Descendant"
    THEN skip_whitespace(Parser(input, FALSE), f.pos) ELSE f.pos

CombinatorRoundOf(f) == CombinatorRound(f, BehindCombinator(f))

CombinatorIteration ==
    /\ step = "combinator loop"
    /\ CombinatorRoundOf(FindCombinator(Parser(input, FALSE), cursor, FALSE))
    /\ UNCHANGED <<build, ua, ub, pa, pb, psum, back, context, input, written,
                   boundsVars>>

LoopPieces ==
    { <<Ident("E")>>, <<IDHash("i")>>, <<Delim("."), Ident("c")>>,
      <<Colon, Ident("root")>>, <<Colon, Function("not", <<Ident("E")>>)>>,
      <<WhiteSpace>>, <<Delim(">")>>, <<Delim("*")>>,
      <<Colon, Colon, Ident("before")>> }

LoopInit == ParseIdle({ParserContextNew})

LoopNext ==
    \/ Write(LoopPieces, MaxLoopPieces)
    \/ EnterComplexSelector
    \/ FirstCompound
    \/ SimpleSelectorIteration
    \/ CombinatorIteration

SpecLoop == LoopInit /\ [][LoopNext]_vars

\* SpecLook: the four lookahead functions, each called once with the
\* cursor anywhere in a stream of single tokens
LookPieces ==
    { <<Ident("E")>>, <<Ident("svg")>>, <<Ident("After")>>,
      <<Ident("first-line")>>, <<Ident("root")>>, <<Colon>>, <<Delim(".")>>,
      <<Delim("*")>>, <<Delim("|")>>, <<WhiteSpace>>, <<IDHash("i")>> }

ParseQualifiedNameAt ==
    /\ step = "start"
    /\ \E p \in Positions, in_attr_selector \in BOOLEAN :
          /\ cursor' = p
          /\ result' = parse_qualified_name(context, Parser(input, FALSE), p,
                                            in_attr_selector)
    /\ step' = "qualified name"
    /\ UNCHANGED <<build, ua, ub, pa, pb, psum, back, context, input, written,
                   boundsVars, acc>>

ParseTypeSelectorAt ==
    /\ step = "start"
    /\ \E p \in Positions :
          /\ cursor' = p
          /\ result' = parse_type_selector(context, Parser(input, FALSE), p)
    /\ step' = "type selector"
    /\ UNCHANGED <<build, ua, ub, pa, pb, psum, back, context, input, written,
                   boundsVars, acc>>

ParseOneSimpleSelectorAt ==
    /\ step = "start"
    /\ \E p \in Positions :
          /\ cursor' = p
          /\ result' = parse_one_simple_selector(context, Parser(input, FALSE), p)
    /\ step' = "simple selector"
    /\ UNCHANGED <<build, ua, ub, pa, pb, psum, back, context, input, written,
                   boundsVars, acc>>

ParsePseudoElementAt ==
    /\ step = "start"
    /\ \E p \in Positions :
          /\ cursor' = p
          /\ result' = parse_pseudo_element(context, Parser(input, FALSE), p)
    /\ step' = "pseudo-element"
    /\ UNCHANGED <<build, ua, ub, pa, pb, psum, back, context, input, written,
                   boundsVars, acc>>

LookInit == ParseIdle({ParserContextNew, RichContext})

LookNext ==
    \/ Write(LookPieces, MaxLookPieces)
    \/ ParseQualifiedNameAt
    \/ ParseTypeSelectorAt
    \/ ParseOneSimpleSelectorAt
    \/ ParsePseudoElementAt

SpecLook == LookInit /\ [][LookNext]_vars

(***************************************************************************)
(* Claims about parsed selectors.                                          *)
(***************************************************************************)
Parsed == step = "parsed"

\* the nodes of a chain, rightmost first
RECURSIVE ChainNodes(_)
ChainNodes(complex) ==
    IF complex.next = None THEN <<complex>>
    ELSE <<complex>> \o ChainNodes(complex.next[1][1])

\* every simple selector of a chain
RECURSIVE ConcatCompounds(_)
ConcatCompounds(nodes) ==
    IF nodes = <<>> THEN <<>>
    ELSE Head(nodes).compound_selector \o ConcatCompounds(Tail(nodes))

ChainSimples(complex) == ConcatCompounds(ChainNodes(complex))

CountOf(simples, variants) ==
    Cardinality({k \in 1..Len(simples) : simples[k].t \in variants})

AttributeVariants ==
    {"AttrExists", "AttrEqual", "AttrIncludes", "AttrDashMatch",
     "AttrPrefixMatch", "AttrSubstringMatch", "AttrSuffixMatch"}

StructuralVariants ==
    {"FirstChild", "LastChild", "OnlyChild", "Root", "Empty",
     "FirstOfType", "LastOfType", "OnlyOfType",
     "NthChild", "NthLastChild", "NthOfType", "NthLastOfType"}

\* the counts of a chain without Negation, the pseudo-element included
FlatCount(complex, pseudo_element) ==
    LET all == ChainSimples(complex) IN
    UnpackedSpecificity(
        CountOf(all, {"ID"}),
        CountOf(all, {"Class"} \cup AttributeVariants \cup StructuralVariants
                     \cup {"NonTSPseudoClass"}),
        CountOf(all, {"LocalName"}) + (IF pseudo_element # None THEN 1 ELSE 0))

\* C2: the specificity stored in a parsed selector without Negation is the
\* packed triple (number of IDs, number of class-like simple selectors,
\* number of local names plus one for a pseudo-element), counted over every
\* compound of the chain; Namespace selectors count for nothing.
C2_SpecificityIsPackedCount ==
    (Parsed /\ result.ok) =>
        \A i \in 1..Len(result.v) :
            LET s == result.v[i] IN
            CountOf(ChainSimples(s.complex_selector), {"Negation"}) = 0
                => s.specificity = Pack(FlatCount(s.complex_selector, s.pseudo_element))

C2_Witness ==
    /\ Parsed /\ result.ok
    /\ LET s == result.v[1] IN
        /\ s.complex_selector.next # None
        /\ s.pseudo_element # None
        /\ CountOf(ChainSimples(s.complex_selector), {"Namespace"}) = 1
        /\ s.specificity = Pack(UnpackedSpecificity(0, 1, 2))

\* the greatest triple of a set in the lexicographic order
LexMax(S) == CHOOSE m \in S : \A x \in S : ~UnpackedLess(m, x)

\* what one simple selector other than a Negation counts for
VariantCount(t) ==
    UnpackedSpecificity(
        IF t = "ID" THEN 1 ELSE 0,
        IF t \in {"Class", "NonTSPseudoClass"} \cup AttributeVariants
                 \cup StructuralVariants THEN 1 ELSE 0,
        IF t = "LocalName" THEN 1 ELSE 0)

RECURSIVE SumWithNegation(_, _)
RECURSIVE ChainCountWithNegation(_)

\* what the k-th simple selector contributes: a Negation the greatest of
\* what its alternatives count for, each over its whole chain
Contribution(simple) ==
    IF simple.t = "Negation"
    THEN LexMax({ChainCountWithNegation(simple.negated[a]) :
                    a \in 1..Len(simple.negated)})
    ELSE VariantCount(simple.t)

SumWithNegation(simples, k) ==
    IF k > Len(simples) THEN UnpackedDefault
    ELSE UnpackedAdd(Contribution(simples[k]), SumWithNegation(simples, k + 1))

ChainCountWithNegation(complex) == SumWithNegation(ChainSimples(complex), 1)

ExpectedSpecificity(s) ==
    Pack(UnpackedAdd(ChainCountWithNegation(s.complex_selector),
                     UnpackedSpecificity(0, 0,
                         IF s.pseudo_element # None THEN 1 ELSE 0)))

\* C3: a Negation adds to the accumulator the lexicographic maximum of the
\* unpacked specificities of its alternatives, each counted over the
\* alternative's whole chain, and never their sum: the specificity of a
\* parsed selector is the packed sum of its plain simple selectors, of
\* that maximum for each Negation, and of one element for a pseudo-element.
C3_NegationAddsMaximum ==
    (Parsed /\ result.ok) =>
        \A i \in 1..Len(result.v) :
            result.v[i].specificity = ExpectedSpecificity(result.v[i])

\* :not(.c, #i) next to a type selector: the Negation counts for (1,0,0)
C3_Witness ==
    /\ Parsed /\ result.ok
    /\ LET compound == result.v[1].complex_selector.compound_selector IN
        /\ Len(compound) = 2
        /\ compound[1].t = "LocalName"
        /\ compound[2].t = "Negation"
        /\ Len(compound[2].negated) = 2
        /\ compound[2].negated[1].compound_selector = <<SelClass("c")>>
        /\ compound[2].negated[2].compound_selector = <<SelID("i")>>
    /\ result.v[1].specificity = Pack(UnpackedSpecificity(1, 0, 1))

\* a token that stands between compounds
IsSeparator(t) == t.k = "WhiteSpace" \/ (t.k = "Delim" /\ t.v \in {">", "+", "~"})

\* the maximal runs of separators and of other tokens, in source order
RECURSIVE RunsOf(_, _)
RunsOf(ts, runs) ==
    IF ts = <<>> THEN runs
    ELSE IF runs # <<>> /\ IsSeparator(runs[Len(runs)][1]) = IsSeparator(Head(ts))
         THEN RunsOf(Tail(ts), [runs EXCEPT ![Len(runs)] = Append(@, Head(ts))])
         ELSE RunsOf(Tail(ts), Append(runs, <<Head(ts)>>))

Runs == RunsOf(input, <<>>)

\* the combinator tokens of a run of separators
CombinatorsIn(run) == {k \in 1..Len(run) : run[k].k = "Delim"}

\* a run of tokens parsed on its own as one compound, to its end
CompoundAlone(run) ==
    LET r == parse_compound_selector(context, Parser(run, FALSE), 1)
    IN IF r.ok /\ r.pos = Len(run) + 1 THEN r ELSE Err(0)

\* the input reads c1 k1 c2 ... k(n-1) cn: compounds at the odd runs, each
\* non-empty, and between two of them whitespace around at most one of
\* `>`, `+`, `~`
WrittenAsChain ==
    /\ Len(Runs) % 2 = 1
    /\ \A j \in 1..Len(Runs) :
          IF j % 2 = 1
          THEN /\ ~IsSeparator(Runs[j][1])
               /\ CompoundAlone(Runs[j]).ok
               /\ CompoundAlone(Runs[j]).v # <<>>
          ELSE /\ IsSeparator(Runs[j][1])
               /\ Cardinality(CombinatorsIn(Runs[j])) <= 1

\* the tag that a run of separators stands for
TagOf(run) ==
    IF CombinatorsIn(run) = {} THEN "Descendant"
    ELSE LET c == run[CHOOSE k \in CombinatorsIn(run) : TRUE].v IN
         CASE c = ">" -> "Child"
           [] c = "+" -> "NextSibling"
           [] c = "~" -> "LaterSibling"

\* the chain whose head holds the compound at run j, linked to those before
RECURSIVE ChainUpTo(_)
ChainUpTo(j) ==
    ComplexSelector(CompoundAlone(Runs[j]).v,
                    IF j = 1 THEN None
                    ELSE Some(<<ChainUpTo(j - 2), TagOf(Runs[j - 1])>>))

\* C8: for a selector written as compounds c1 k1 c2 ... k(n-1) cn, every ci
\* non-empty, parse_complex_selector returns a chain of exactly n nodes:
\* its head holds cn, its next links lead to c(n-1), ..., c1 in that order,
\* the last has next = None, and the link from c(i+1) to ci is tagged Child,
\* NextSibling or LaterSibling when ki is `>`, `+` or `~`, with or without
\* whitespace around it, and Descendant exactly when ki is whitespace only.
C8_ChainOfCompounds ==
    (step = "complex" /\ input # <<>> /\ WrittenAsChain) =>
        /\ result.ok
        /\ Len(ChainNodes(result.v)) = (Len(Runs) + 1) \div 2
        /\ result.v = ChainUpTo(Len(Runs))
        /\ result.pos = Len(input) + 1

\* E > E.c E: three nodes, a Child written with whitespace before it and
\* a Descendant
C8_Witness ==
    /\ step = "complex" /\ WrittenAsChain /\ result.ok
    /\ Len(Runs) = 5
    /\ Runs[2] = <<WhiteSpace, Delim(">")>>
    /\ Runs[4] = <<WhiteSpace>>
    /\ result.v.next # None
    /\ result.v.next[1][2] = "Descendant"
    /\ result.v.next[1][1].next[1][2] = "Child"
    /\ result.v.next[1][1].next[1][1].next = None

\* the token at index k of the input, EndOfInput past its end
TokenAt(k) == IF k <= Len(input) THEN input[k] ELSE EndOfInput

IsBar(t) == t.k = "Delim" /\ t.v = "|"
IsStar(t) == t.k = "Delim" /\ t.v = "*"

\* an attribute block whose name stands alone, without `|`
BareAttribute(t) ==
    /\ t.k = "SquareBracketBlock"
    /\ t.body # <<>>
    /\ t.body[1].k = "Ident"
    /\ (Len(t.body) >= 2 => ~IsBar(t.body[2]))

AttributeBlocks == {k \in 1..Len(input) : input[k].k = "SquareBracketBlock"}

\* the attribute selectors of the first selector, leftmost compound first
AttributesOf(s) ==
    LET all == ChainSimples(s.complex_selector) IN
    {k \in 1..Len(all) : all[k].t \in AttributeVariants}

\* the leftmost compound of a chain
Leftmost(complex) == ChainNodes(complex)[Len(ChainNodes(complex))].compound_selector

\* C9: the default namespace applies to type selectors and never to
\* attribute selectors: a bare type selector e yields Namespace(X) then
\* LocalName(e) under default_namespace = X and LocalName(e) alone without
\* one, and a bare attribute name always yields an AttrSelector in
\* Specific(no namespace), whatever the default namespace.
C9_DefaultNamespaceNotForAttributes ==
    (Parsed /\ result.ok) =>
        LET s == result.v[1]
            first == Leftmost(s.complex_selector)
            all == ChainSimples(s.complex_selector)
        IN /\ (TokenAt(1).k = "Ident" /\ ~IsBar(TokenAt(2))) =>
                 IF context.default_namespace = None
                 THEN first[1] = SelLocalName(TokenAt(1).v)
                 ELSE /\ Len(first) >= 2
                      /\ first[1] = SelNamespace(context.default_namespace[1])
                      /\ first[2] = SelLocalName(TokenAt(1).v)
           /\ (\A k \in AttributeBlocks : BareAttribute(input[k])) =>
                 /\ Cardinality(AttributesOf(s)) = Cardinality(AttributeBlocks)
                 /\ \A k \in AttributesOf(s) :
                       all[k].namespace = Specific(NoNamespace)

\* E[Foo] under the default namespace mathml
C9_Witness ==
    /\ Parsed /\ result.ok
    /\ context.default_namespace = Some("mathml")
    /\ input = <<Ident("E"), SquareBracketBlock(<<Ident("Foo")>>)>>
    /\ result.v[1].complex_selector.compound_selector
         = <<SelNamespace("mathml"), SelLocalName("E"),
             SelAttr("AttrExists",
                     [namespace |-> Specific(NoNamespace),
                      lower_name |-> "foo", name |-> "Foo"], "", "")>>

Typed == step = "typed"

\* the namespace that a written prefix part resolves to: a declared
\* prefix, nothing before the `|`, or `*`
Known(prefix) == prefix \in DOMAIN context.namespace_prefixes

\* C10: parse_type_selector yields at most two simple selectors, a
\* Namespace (present iff the resolved constraint is a specific namespace)
\* followed by a LocalName (present iff the local part is an identifier):
\* prefix|ident and |ident give two, prefix|* and *|ident give one, *|*
\* gives none; a prefix followed by `|` that is not in namespace_prefixes
\* is Err, never Ok(None).
C10_TypeSelectorShape ==
    Typed =>
        LET t1 == TokenAt(1)
            t2 == TokenAt(2)
            t3 == TokenAt(3)
        IN
        /\ ~result.panic
        /\ (result.ok /\ result.some) =>
              /\ Len(result.v) <= 2
              /\ Len(result.v) = 2 =>
                    result.v[1].t = "Namespace" /\ result.v[2].t = "LocalName"
              /\ Len(result.v) = 1 => result.v[1].t \in {"Namespace", "LocalName"}
        /\ (t1.k = "Ident" /\ IsBar(t2) /\ Known(t1.v) /\ t3.k = "Ident") =>
              result = Ok(<<SelNamespace(context.namespace_prefixes[t1.v]),
                            SelLocalName(t3.v)>>, 4)
        /\ (t1.k = "Ident" /\ IsBar(t2) /\ Known(t1.v) /\ IsStar(t3)) =>
              result = Ok(<<SelNamespace(context.namespace_prefixes[t1.v])>>, 4)
        /\ (IsBar(t1) /\ t2.k = "Ident") =>
              result = Ok(<<SelNamespace(NoNamespace), SelLocalName(t2.v)>>, 3)
        /\ (IsStar(t1) /\ IsBar(t2) /\ t3.k = "Ident") =>
              result = Ok(<<SelLocalName(t3.v)>>, 4)
        /\ (IsStar(t1) /\ IsBar(t2) /\ IsStar(t3)) => result = Ok(<<>>, 4)
        /\ (t1.k = "Ident" /\ ~IsBar(t2)) =>
              /\ result.ok /\ result.some
              /\ (\E k \in 1..Len(result.v) : result.v[k].t = "Namespace")
                    <=> context.default_namespace # None
        /\ (t1.k = "Ident" /\ IsBar(t2) /\ ~Known(t1.v)) => ~result.ok

\* svg|E where no prefix svg is declared
C10_Witness ==
    /\ Typed
    /\ input = <<Ident("svg"), Delim("|"), Ident("E")>>
    /\ ~Known("svg")
    /\ ~result.ok /\ ~result.panic

\* the k-th token from the entry position on, EndOfInput past the end
Ahead(k) == TokenAt(cursor + k - 1)

LegacyNames == {"before", "after", "first-line", "first-letter"}

\* what the host makes of a pseudo-element name
HostKnows(name) == impl_parse_pseudo_element(context, name).ok
HostValue(name) == impl_parse_pseudo_element(context, name).v

\* C13: parse_pseudo_element has three outcomes.  When the next token is
\* not a colon it returns Ok(None) with the cursor where it was on entry.
\* Once the colon is consumed it never returns Ok(None): one colon and an
\* identifier other than before, after, first-line, first-letter (ASCII
\* case-insensitive), two colons without an identifier behind them, any
\* other token, or a name the host does not recognise give Err; otherwise
\* it returns the pseudo-element the host resolved.
C13_PseudoElementOutcomes ==
    step = "pseudo-element" =>
        /\ ~result.panic
        /\ Ahead(1).k # "Colon" => result = OkNone(cursor)
        /\ Ahead(1).k = "Colon" =>
              /\ ~(result.ok /\ ~result.some)
              /\ IF Ahead(2).k = "Ident"
                 THEN IF /\ to_ascii_lowercase(Ahead(2).v) \in LegacyNames
                         /\ HostKnows(Ahead(2).v)
                      THEN result = Ok(Some(HostValue(Ahead(2).v)), cursor + 2)
                      ELSE ~result.ok
                 ELSE IF Ahead(2).k = "Colon" /\ Ahead(3).k = "Ident"
                         /\ HostKnows(Ahead(3).v)
                      THEN result = Ok(Some(HostValue(Ahead(3).v)), cursor + 3)
                      ELSE ~result.ok

\* E:root with the cursor behind E: one colon, then a name that is no
\* CSS 2.1 pseudo-element
C13_Witness ==
    /\ step = "pseudo-element"
    /\ input = <<Ident("E"), Colon, Ident("root")>>
    /\ cursor = 2
    /\ ~result.ok /\ ~result.panic

LookedAhead ==
    step \in {"qualified name", "type selector", "simple selector", "pseudo-element"}

\* C15: whenever parse_qualified_name, parse_type_selector,
\* parse_one_simple_selector or parse_pseudo_element returns Ok(None), the
\* cursor is exactly where it was on entry to the function, also behind a
\* `::` and behind a `:ident` that is no pseudo-class.
C15_NoneRestoresCursor ==
    (LookedAhead /\ result.ok /\ ~result.some) => result.pos = cursor

\* E:first-line with the cursor behind E: the name is no pseudo-class
C15_Witness ==
    /\ step = "simple selector"
    /\ input = <<Ident("E"), Colon, Ident("first-line")>>
    /\ cursor = 2
    /\ result = OkNone(2)

\* the tokens behind the attribute's name, whitespace left out
RECURSIVE WithoutWhitespace(_)
WithoutWhitespace(ts) ==
    IF ts = <<>> THEN <<>>
    ELSE IF Head(ts).k = "WhiteSpace" THEN WithoutWhitespace(Tail(ts))
    ELSE <<Head(ts)>> \o WithoutWhitespace(Tail(ts))

AfterName == WithoutWhitespace(Tail(input))

\* the AttrSelector of a bare name
BareAttr(name) ==
    [namespace |-> Specific(NoNamespace),
     lower_name |-> to_ascii_lowercase(name), name |-> name]

IsValue(t) == t.k \in {"Ident", "QuotedString"}

\* the variant that an operator token other than `=` and `|=` stands for
VariantOf(k) ==
    CASE k = "IncludeMatch" -> "AttrIncludes"
      [] k = "PrefixMatch" -> "AttrPrefixMatch"
      [] k = "SubstringMatch" -> "AttrSubstringMatch"
      [] k = "SuffixMatch" -> "AttrSuffixMatch"

\* the selector returned, whatever the cursor
Returned(simple) == result.ok /\ result.some /\ result.v = simple

\* C14: inside an attribute block the token behind the qualified name
\* determines the result: the end of the block gives AttrExists; `=` gives
\* AttrEqual, CaseInsensitive iff an identifier equal to `i` (ASCII
\* case-insensitive) follows the value, CaseSensitive iff nothing follows,
\* and Err otherwise; `~=`, `^=`, `*=`, `$=` give AttrIncludes,
\* AttrPrefixMatch, AttrSubstringMatch, AttrSuffixMatch; `|=` gives
\* AttrDashMatch(value, value + "-"); any other token is Err.
C14_AttributeOperators ==
    (step = "attribute" /\ input # <<>> /\ input[1].k = "Ident") =>
        LET attr == BareAttr(input[1].v)
            t == AfterName
            op == IF t = <<>> THEN EndOfInput ELSE t[1]
            valued == Len(t) >= 2 /\ IsValue(t[2])
        IN
        /\ ~result.panic
        /\ t = <<>> => Returned(SelAttr("AttrExists", attr, "", ""))
        /\ (op.k = "Delim" /\ op.v = "=" /\ valued) =>
              /\ Len(t) = 2 =>
                    Returned(SelAttr("AttrEqual", attr, t[2].v, "CaseSensitive"))
              /\ (Len(t) >= 3 /\ t[3].k = "Ident" /\ t[3].v \in {"i", "I"}) =>
                    Returned(SelAttr("AttrEqual", attr, t[2].v, "CaseInsensitive"))
              /\ (Len(t) >= 3 /\ ~(t[3].k = "Ident" /\ t[3].v \in {"i", "I"})) =>
                    ~result.ok
        /\ (op.k \in {"IncludeMatch", "PrefixMatch", "SubstringMatch", "SuffixMatch"}
            /\ valued) =>
              Returned(SelAttr(VariantOf(op.k), attr, t[2].v, ""))
        /\ (op.k = "DashMatch" /\ valued) =>
              Returned(SelAttr("AttrDashMatch", attr, t[2].v, t[2].v \o "-"))
        /\ (op.k \in {"Ident", "QuotedString"} \/ (op.k = "Delim" /\ op.v # "=")) =>
              ~result.ok

\* [Foo="v" Foo]: an identifier that is not `i` behind the value
C14_Witness ==
    /\ step = "attribute"
    /\ input = <<Ident("Foo"), Delim("="), QuotedString("v"), Ident("Foo")>>
    /\ ~result.ok /\ ~result.panic

\* the alternatives of every Negation of a chain
NegatedIn(complex) ==
    LET all == ChainSimples(complex) IN
    UNION {{all[k].negated[a] : a \in 1..Len(all[k].negated)} :
              k \in {j \in 1..Len(all) : all[j].t = "Negation"}}

\* C16: in every successfully parsed selector, each alternative stored in
\* a Negation is a ComplexSelector whose rightmost compound_selector is
\* non-empty, so that a :not() argument that is empty or ends in a
\* combinator is not accepted.
C16_NegationAlternativesNonEmpty ==
    (Parsed /\ result.ok) =>
        \A i \in 1..Len(result.v) :
            \A alt \in NegatedIn(result.v[i].complex_selector) :
                alt.compound_selector # <<>>

\* selectors in which a universal selector stands for a whole compound
UniversalInputs ==
    { <<Delim("*")>>,
      <<Delim("*"), Delim("|"), Delim("*")>>,
      <<Ident("E"), WhiteSpace, Delim("*")>>,
      <<Delim("*"), WhiteSpace, Ident("E")>> }

\* C18: a compound in which a type or universal selector was matched counts
\* as present even when it contributes no simple selector: a bare `*`
\* with no default namespace, or `*|*`, is accepted by parse_selector_list,
\* and such a compound does not end the combinator chain.
C18_UniversalCompoundAccepted ==
    (Parsed /\ context.default_namespace = None /\ input \in UniversalInputs) =>
        /\ result.ok
        /\ Len(ChainNodes(result.v[1].complex_selector))
             = Cardinality({k \in 1..Len(input) : input[k].k = "WhiteSpace"}) + 1

\* the Negations of every selector returned
NegationsOf(selectors) ==
    UNION {LET all == ChainSimples(selectors[i].complex_selector) IN
           {all[k] : k \in {j \in 1..Len(all) : all[j].t = "Negation"}} :
              i \in 1..Len(selectors)}

\* C19: parsing and the specificity computation it runs never panic:
\* parse_qualified_name in attribute-selector mode never returns Some with
\* a universal (None) local name, so unreachable!() in
\* parse_attribute_selector is not reached, and every Negation the parser
\* builds has at least one alternative, so max().unwrap() does not fail.
C19_NeverPanics ==
    /\ ~result.panic
    /\ (step = "attribute name" /\ result.ok /\ result.some) =>
          result.v.local_name # None
    /\ (Parsed /\ result.ok) =>
          \A negation \in NegationsOf(result.v) : Len(negation.negated) >= 1

\* [*|*]: a universal local name behind an explicit namespace, in an
\* attribute
C19_Witness ==
    /\ Parsed
    /\ input = <<SquareBracketBlock(<<Delim("*"), Delim("|"), Delim("*")>>)>>
    /\ ~result.ok /\ ~result.panic

InLoop == step \in {"compound loop", "combinator loop"}

\* the loops go on into the next round
GoesOn == InLoop /\ InLoop'

\* the simple-selector loop is left for the combinator loop
LeavesCompoundLoop == step = "compound loop" /\ step' = "combinator loop"

\* C17: parse_complex_selector terminates: a round of the simple-selector
\* loop that stays in the loop, and a round of the combinator loop that
\* goes on into the next compound, leave the cursor strictly behind where
\* the round began, the simple-selector loop is left without moving the
\* cursor back, and the cursor never passes the end of the input, so the
\* rounds are at most as many as twice the tokens; the call then returns
\* what the whole function returns.
C17_LoopsConsumeOrLeave ==
    /\ [][GoesOn => \/ cursor' > cursor
                    \/ LeavesCompoundLoop /\ cursor' = cursor]_vars
    /\ [][InLoop' => cursor' <= Len(input') + 1]_vars
    /\ [][step' = "returned" =>
             result' = parse_complex_selector(context, Parser(input, FALSE), 1)]_vars

\* `E :root > #i`: the combinator loop is in its second round, after the
\* reset that made the whitespace a descendant combinator, with tokens left
C17_Witness ==
    /\ step = "combinator loop"
    /\ acc.complex[1].next # None
    /\ acc.complex[1].next[1][2] = "Descendant"
    /\ cursor <= Len(input)

\* the items of a comma-separated list, commas inside blocks apart
RECURSIVE SplitAtCommas(_, _)
SplitAtCommas(ts, item) ==
    IF ts = <<>> THEN <<item>>
    ELSE IF Head(ts).k = "Comma" THEN <<item>> \o SplitAtCommas(Tail(ts), <<>>)
    ELSE SplitAtCommas(Tail(ts), Append(item, Head(ts)))

Items == SplitAtCommas(input, <<>>)

\* one item parsed on its own, to its end
ItemAlone(item) ==
    LET inp == Parser(item, FALSE)
        r == parse_selector(context, inp, 1)
    IN IF r.ok /\ Exhausted(inp, r.pos) THEN r ELSE Err(0)

\* C6: parse_selector_list is all-or-nothing: Err when any one item fails to
\* parse, otherwise exactly one Selector per item, in source order.
C6_AllOrNothing ==
    Parsed =>
        IF \E i \in 1..Len(Items) : ~ItemAlone(Items[i]).ok
        THEN ~result.ok
        ELSE /\ result.ok
             /\ Len(result.v) = Len(Items)
             /\ \A i \in 1..Len(Items) : result.v[i] = ItemAlone(Items[i]).v

C6_Witness ==
    /\ Parsed /\ ~result.ok
    /\ Len(Items) = 2
    /\ ItemAlone(Items[1]).ok
    /\ ~ItemAlone(Items[2]).ok
    /\ Items[2] # <<>>

IsCombinator(t) == t.k = "Delim" /\ t.v \in {">", "+", "~"}

RECURSIVE StripTrailingWs(_)
StripTrailingWs(ts) ==
    IF ts # <<>> /\ ts[Len(ts)].k = "WhiteSpace"
    THEN StripTrailingWs(SubSeq(ts, 1, Len(ts) - 1)) ELSE ts

\* an item that is empty or ends in a combinator
Dangling(item) ==
    LET t == StripTrailingWs(item) IN t = <<>> \/ IsCombinator(t[Len(t)])

\* C7: a returned Selector has a non-empty rightmost compound or a
\* pseudo-element, every node behind it has a non-empty compound, and an
\* empty item or one ending in a combinator is rejected.
C7_NoEmptySelector ==
    Parsed =>
        /\ result.ok =>
             \A i \in 1..Len(result.v) :
                LET s == result.v[i]
                    nodes == ChainNodes(s.complex_selector)
                IN /\ s.complex_selector.compound_selector # <<>>
                      \/ s.pseudo_element # None
                   /\ \A k \in 2..Len(nodes) : nodes[k].compound_selector # <<>>
        /\ (\E i \in 1..Len(Items) : Dangling(Items[i])) => ~result.ok

C7_Witness ==
    /\ Parsed /\ result.ok
    /\ LET s == result.v[1] IN
        /\ s.complex_selector.compound_selector = <<>>
        /\ s.complex_selector.next # None
        /\ s.pseudo_element # None

(***************************************************************************)
(* Claims about Bounds.                                                    *)
(***************************************************************************)
ElementwiseMin(x, y) ==
    UnpackedSpecificity(Min(x.id_selectors, y.id_selectors),
                        Min(x.class_like_selectors, y.class_like_selectors),
                        Min(x.element_selectors, y.element_selectors))

ElementwiseMax(x, y) ==
    UnpackedSpecificity(
        IF x.id_selectors >= y.id_selectors THEN x.id_selectors ELSE y.id_selectors,
        IF x.class_like_selectors >= y.class_like_selectors
        THEN x.class_like_selectors ELSE y.class_like_selectors,
        IF x.element_selectors >= y.element_selectors
        THEN x.element_selectors ELSE y.element_selectors)

Widened == step = "widened"

\* C11: for Bounds over unpacked specificities, widen(A, B) has for min the
\* per-tier minimum of A.min and B.min and for max the per-tier maximum of
\* A.max and B.max.
C11_WidenIsElementwise ==
    Widened =>
        /\ bout.ab.min = ElementwiseMin(bounds[1].min, bounds[2].min)
        /\ bout.ab.max = ElementwiseMax(bounds[1].max, bounds[2].max)

UnpackedLeq(x, y) == ~UnpackedLess(y, x)

\* C12: widen is idempotent, commutative and associative, and
\* widen(A, B).min <= A.min, widen(A, B).min <= B.min,
\* widen(A, B).max >= A.max and widen(A, B).max >= B.max in the derived
\* order of UnpackedSpecificity.
C12_WidenLaws ==
    Widened =>
        /\ bout.aa = bounds[1]
        /\ bout.ab = bout.ba
        /\ bout.ab_c = bout.a_bc
        /\ UnpackedLeq(bout.ab.min, bounds[1].min)
        /\ UnpackedLeq(bout.ab.min, bounds[2].min)
        /\ UnpackedLeq(bounds[1].max, bout.ab.max)
        /\ UnpackedLeq(bounds[2].max, bout.ab.max)

\* three Bounds, no two alike, the second below the first at both ends
C12_Witness ==
    /\ Widened
    /\ UnpackedLess(bounds[2].min, bounds[1].min)
    /\ UnpackedLess(bounds[1].max, bounds[2].max)
    /\ bounds[3] # bounds[1] /\ bounds[3] # bounds[2]
    /\ bout.ab = bounds[2]
    /\ bout.ab_c # bout.ab

BoundsPacked == step = "bounds packed"

\* C20 as stated: for every Bounds b with b.min <= b.max, b.pack().min <=
\* b.pack().max.
C20_PackKeepsOrder ==
    (BoundsPacked /\ UnpackedLeq(bounds[1].min, bounds[1].max)) =>
        bout.min <= bout.max

NoTierAbove(u, n) ==
    /\ u.id_selectors <= n
    /\ u.class_like_selectors <= n
    /\ u.element_selectors <= n

\* C20 amended: for every Bounds b with b.min <= b.max and no tier of
\* b.max above 1023, b.pack().min <= b.pack().max.
C20_PackKeepsOrderUnsaturated ==
    (/\ BoundsPacked
     /\ UnpackedLeq(bounds[1].min, bounds[1].max)
     /\ NoTierAbove(bounds[1].max, MAX_10BIT)) =>
        bout.min <= bout.max

\* (0,1024,1023) up to (1,0,0): min saturates, max does not
C20_Witness ==
    /\ BoundsPacked
    /\ bounds[1].min = UnpackedSpecificity(0, MAX_10BIT + 1, MAX_10BIT)
    /\ bounds[1].max = UnpackedSpecificity(1, 0, 0)
    /\ bout.min = Pack(UnpackedSpecificity(0, MAX_10BIT, MAX_10BIT))
    /\ bout.min < bout.max

UnpackedLeq_u32(x, y) == ~UnpackedLess_u32(y, x)

\* C21: starting from default Bounds, after any sequence of incr_*, widen
\* and Bounds + Bounds every Bounds obtained has min <= max in the
\* lexicographic order on (id, class-like, element).
C21_BoundsStayOrdered ==
    \A i \in Trackers : UnpackedLeq_u32(bounds[i].min, bounds[i].max)

(***************************************************************************)
(* Claims about the specificity arithmetic.                                *)
(***************************************************************************)
Saturated(u) ==
    UnpackedSpecificity(Min(u.id_selectors, MAX_10BIT),
                        Min(u.class_like_selectors, MAX_10BIT),
                        Min(u.element_selectors, MAX_10BIT))

\* C1: packed addition a + b equals pack(unpack(a) + unpack(b)): tiers are
\* added elementwise and each tier of the sum is saturated at 1023.
C1_PackedAddIsUnpackAddPack ==
    step = "added" =>
        /\ ~psum.panic
        /\ psum.v = Pack(UnpackedAdd(Unpack(pa), Unpack(pb)))

\* C4: pack(a) < pack(b) in the integer order iff the saturated triple of a
\* is lexicographically below that of b.
C4_PackedOrderIsLexicographic ==
    step = "packed" =>
        /\ (pa < pb) <=> UnpackedLess(Saturated(ua), Saturated(ub))
        /\ (/\ ua.id_selectors > ub.id_selectors
            /\ ua.id_selectors <= MAX_10BIT) => pa > pb

C4_Witness ==
    /\ step = "packed"
    /\ ua.id_selectors = 1 /\ ub.id_selectors = 0
    /\ ub.class_like_selectors > MAX_10BIT
    /\ ub.element_selectors > MAX_10BIT
    /\ ua.class_like_selectors = 0
    /\ pa > pb

\* C5: unpack(pack(u)) is u with every tier clamped to 1023, and
\* pack(unpack(s)) = s for every s produced by pack.
C5_RoundTrip ==
    step = "unpacked" =>
        /\ back = Saturated(ua)
        /\ Pack(back) = pa

C5_Witness ==
    /\ step = "unpacked"
    /\ ua.class_like_selectors > MAX_10BIT
    /\ ua.id_selectors = 1
    /\ ua.element_selectors = 1
    /\ back = UnpackedSpecificity(1, MAX_10BIT, 1)

=============================================================================
